---- MODULE Spec2Model ----
(***************************************************************************)
(* Language negotiation and locale handling of fluent-locale /             *)
(* fluent-langneg.                                                         *)
(*                                                                         *)
(* Spec models negotiate_languages and filter_matches of                   *)
(* src/src/negotiate/mod.rs as a state machine that walks the requested    *)
(* list and, for every requested identifier, the six matching stages.      *)
(* Identifiers are records of their subtags; the matching predicate is     *)
(* Locale::matches of src/src/locale/mod.rs and the expander is            *)
(* LocaleExpander::maximize of src/src/negotiate/likely_subtags.rs.        *)
(*                                                                         *)
(* ParseSpec models parse_language_tag of src/src/locale/parser.rs and     *)
(* the Display of Locale on tags given character by character; LocaleSpec  *)
(* models the public operations of Locale on one locale object;            *)
(* MaximizeSpec applies the expander repeatedly to one identifier and      *)
(* AcceptSpec models parse of src/src/accepted_languages.rs.               *)
(***************************************************************************)
EXTENDS Integers, Sequences, FiniteSets, TLC

VARIABLES
    requested,   \* filter_matches argument `requested`
    available,   \* filter_matches argument `available`
    default,     \* negotiate_languages argument `default`: <<>> is None, <<d>> is Some(d)
    strategy,    \* negotiate_languages argument `strategy`
    av_map,      \* the pool: references (positions in available), one per distinct key
    supported,   \* supported_locales: references, 0 is the reference `default`
    found,       \* history: for every pushed match, <<requested index, stage>>
    ri,          \* number of requested identifiers the for loop has taken
    req,         \* the loop body's binding `req` (shadowed and mutated by stages 3..6)
    pc           \* position in the code

VARIABLES
    t,           \* parse_language_tag argument `t`, a string of characters
    parsed,      \* what parse_language_tag(t) gave
    text,        \* what to_string gave for the parsed locale
    reparsed,    \* what parse_language_tag(text) gave
    ppc          \* position in the parse / print / parse sequence

VARIABLES
    locale,      \* the Locale object the caller holds
    last,        \* the last operation called on it, its argument and its result
    ops          \* number of operations called after construction

VARIABLES
    mx,          \* the identifier handed to LocaleExpander::maximize
    mstatus      \* the TransformResult of every call so far

VARIABLES
    header,      \* accepted_languages::parse argument `s`
    accepted     \* what it returned: <<>> before the call, <<list>> after

VARIABLES
    endian,      \* byte order of the build target: "little" or "big"
    bytes,       \* TinyStr4::new / TinyStr8::new argument `text`, as its UTF-8 bytes
    tiny,        \* <<>> before construction, then the width asked for and the Result
    tlast        \* the last method called on the value, the value and the result

VARIABLES
    mself,       \* Locale::matches receiver `self` (the available side)
    mother,      \* Locale::matches argument `other` (the requested side)
    mres         \* <<>> before the call, then the two range flags and the result

VARIABLES
    results      \* what negotiate_languages returned under Filtering, Matching, Lookup

nvars == <<requested, available, default, strategy, av_map, supported, found, ri, req, pc>>
pvars == <<t, parsed, text, reparsed, ppc>>
lvars == <<locale, last, ops>>
mvars == <<mx, mstatus>>
avars == <<header, accepted>>
tvars == <<endian, bytes, tiny, tlast>>
cvars == <<mself, mother, mres>>
svars == <<results>>
evars == <<tvars, cvars, svars>>

vars == <<nvars, pvars, lvars, mvars, avars, evars>>

\* The variables of the other specifications while one of them runs.
ParserIdle == t = <<>> /\ parsed = <<>> /\ text = <<>> /\ reparsed = <<>> /\ ppc = "idle"
LocaleIdle == locale = <<>> /\ last = <<>> /\ ops = 0
MaximizeIdle == mx = <<>> /\ mstatus = <<>>
AcceptIdle == header = <<>> /\ accepted = <<>>
TinyIdle == endian = "little" /\ bytes = <<>> /\ tiny = <<>> /\ tlast = <<>>
MatchIdle == mself = <<>> /\ mother = <<>> /\ mres = <<>>
StrategyIdle == results = <<>>
ExtraIdle == TinyIdle /\ MatchIdle /\ StrategyIdle

\* ------------------------------------------------------------------------
\* Bounds of the model
\* ------------------------------------------------------------------------
MaxRequested == 2
MaxAvailable == 2

\* ------------------------------------------------------------------------
\* Identifiers
\* ------------------------------------------------------------------------
\* Option::None of a subtag field.
Absent == "-"

\* struct Locale: language, script, region are Option<String> (Absent is
\* None); variants is <<>> for None; privateuse is the Vec of x- subtags.
Loc(l, s, r, v) ==
    [language |-> l, script |-> s, region |-> r, variants |-> v, privateuse |-> <<>>]

get_language(loc) == IF loc.language = Absent THEN "" ELSE loc.language
get_script(loc) == IF loc.script = Absent THEN "" ELSE loc.script
get_region(loc) == IF loc.region = Absent THEN "" ELSE loc.region
get_variants(loc) == loc.variants
has_privateuse(loc) == loc.privateuse # <<>>

\* Locale::matches(&self, other, available_range, requested_range)
matches(self, other, available_range, requested_range) ==
    /\ ~(self.privateuse # <<>> \/ has_privateuse(other))
    /\ ~( /\ (~available_range \/ ~(self.language = Absent))
          /\ (~requested_range \/ ~(get_language(other) = ""))
          /\ get_language(self) # get_language(other) )
    /\ ~( /\ (~available_range \/ ~(self.script = Absent))
          /\ (~requested_range \/ ~(get_script(other) = ""))
          /\ get_script(self) # get_script(other) )
    /\ ~( /\ (~available_range \/ ~(self.region = Absent))
          /\ (~requested_range \/ ~(get_region(other) = ""))
          /\ get_region(self) # get_region(other) )
    /\ ~( /\ (~available_range \/ ~(self.variants = <<>>))
          /\ (~requested_range \/ ~(get_variants(other) = <<>>))
          /\ get_variants(self) # get_variants(other) )

\* ------------------------------------------------------------------------
\* Likely subtags (the shortcut expander of the negotiate module)
\* ------------------------------------------------------------------------
\* static REGION_MATCHING_KEYS, sorted by language (test_region_matching_sort)
REGION_MATCHING_KEYS ==
    << <<"az", "AZ">>, <<"bg", "BG">>, <<"cs", "CS">>, <<"de", "DE">>,
       <<"es", "ES">>, <<"fi", "FI">>, <<"fr", "FR">>, <<"it", "IT">>,
       <<"lt", "LT">>, <<"lv", "LV">>, <<"nl", "NL">>, <<"nu", "NU">>,
       <<"pl", "PL">>, <<"ro", "RO">>, <<"ru", "RU">> >>

\* REGION_MATCHING_KEYS.binary_search_by(|(l, _)| l.cmp(lang)): the indices
\* whose language is lang (at most one, the table being strictly sorted).
binary_search_by(lang) ==
    {i \in 1..Len(REGION_MATCHING_KEYS) : REGION_MATCHING_KEYS[i][1] = lang}

\* The whole-identifier overrides of LocaleExpander::maximize.
Overrides ==
    << <<Loc("en", Absent, Absent, <<>>), Loc("en", "Latn", "US", <<>>)>>,
       <<Loc("fr", Absent, Absent, <<>>), Loc("fr", "Latn", "FR", <<>>)>>,
       <<Loc("sr", Absent, Absent, <<>>), Loc("sr", "Cyrl", "SR", <<>>)>>,
       <<Loc("sr", Absent, "RU", <<>>), Loc("sr", "Latn", "SR", <<>>)>>,
       <<Loc("az", Absent, "IR", <<>>), Loc("az", "Arab", "IR", <<>>)>>,
       <<Loc("zh", Absent, "GB", <<>>), Loc("zh", "Hant", "GB", <<>>)>>,
       <<Loc("zh", Absent, "US", <<>>), Loc("zh", "Hant", "US", <<>>)>> >>

\* LocaleExpander::maximize(&self, input): the identifier after the call and
\* whether the call reported TransformResult::Modified.
maximize_keep_region(input) ==
    LET hit == {i \in 1..Len(Overrides) : Overrides[i][1] = input} IN
    IF hit # {}
    THEN LET extended == Overrides[CHOOSE i \in hit : TRUE][2] IN
         [loc |-> [input EXCEPT !.language = extended.language,
                                !.script = extended.script], modified |-> TRUE]
    ELSE LET idx == binary_search_by(input.language) IN
         IF idx # {}
         THEN [loc |-> input, modified |-> TRUE]
         ELSE [loc |-> input, modified |-> FALSE]

maximize(input) ==
    LET hit == {i \in 1..Len(Overrides) : Overrides[i][1] = input} IN
    IF hit # {}
    THEN LET extended == Overrides[CHOOSE i \in hit : TRUE][2] IN
         [loc |-> [input EXCEPT !.language = extended.language,
                                !.script = extended.script,
                                !.region = extended.region], modified |-> TRUE]
    ELSE LET idx == binary_search_by(input.language) IN
         IF idx # {}
         THEN [loc |-> [input EXCEPT
                          !.region = REGION_MATCHING_KEYS[CHOOSE i \in idx : TRUE][2]],
               modified |-> TRUE]
         ELSE [loc |-> input, modified |-> FALSE]

\* likely_subtags::add(req): Some(maximized copy) when the expander modified
\* the copy, None otherwise; <<>> is None, <<m>> is Some(m).
add(langid) ==
    LET res == maximize(langid) IN
    IF res.modified THEN <<res.loc>> ELSE <<>>

\* req.set_variants(&[]) and req.set_region(None)
set_variants_empty(loc) == [loc EXCEPT !.variants = <<>>]
set_region_none(loc) == [loc EXCEPT !.region = Absent]

\* ------------------------------------------------------------------------
\* Inputs
\* ------------------------------------------------------------------------
EmptyLoc == Loc(Absent, Absent, Absent, <<>>)

\* Identifiers the caller may request.
RequestedLocales ==
    { Loc("en", Absent, Absent, <<>>),
      Loc("en", Absent, "CA", <<>>),
      Loc("de", Absent, Absent, <<>>),
      EmptyLoc }

\* Identifiers the caller may offer.
AvailableLocales ==
    { Loc("en", Absent, Absent, <<>>),
      Loc("en", Absent, "US", <<>>),
      Loc("en", Absent, "GB", <<>>),
      Loc("en", Absent, "US", <<"macos">>),
      EmptyLoc }

\* Identifiers the caller may pass as default.
DefaultLocales ==
    { Loc("en", Absent, "US", <<>>) }

\* enum NegotiationStrategy
NegotiationStrategy == {"Filtering", "Matching", "Lookup"}

SeqsUpTo(S, n) == UNION {[1..k -> S] : k \in 0..n}

\* The sequences that list every element of the set S once.
Orders(S) ==
    {o \in [1..Cardinality(S) -> S] : \A i, j \in 1..Cardinality(S) : o[i] = o[j] => i = j}

\* The value a reference of the result points to: 0 is `default`, i > 0 is
\* &available[i].
Deref(x) == IF x = 0 THEN default[1] ELSE available[x]

\* The identifiers of a list of references.
Values(refs) == [i \in 1..Len(refs) |-> Deref(refs[i])]

\* ------------------------------------------------------------------------
\* filter_matches
\* ------------------------------------------------------------------------
\* for av in available { av_map.insert(av.as_ref(), av) }: the map keeps one
\* entry per distinct identifier, holding the reference inserted last.
av_map_insert_all(avail) ==
    {i \in 1..Len(avail) : \A j \in (i + 1)..Len(avail) : avail[j] # avail[i]}

Init ==
    /\ requested \in SeqsUpTo(RequestedLocales, MaxRequested)
    /\ available \in SeqsUpTo(AvailableLocales, MaxAvailable)
    /\ default \in {<<>>} \cup {<<d>> : d \in DefaultLocales}
    /\ strategy \in NegotiationStrategy
    /\ av_map = av_map_insert_all(available)
    /\ supported = <<>>
    /\ found = <<>>
    /\ ri = 0
    /\ req = EmptyLoc
    /\ pc = "loop"
    /\ ParserIdle /\ LocaleIdle /\ MaximizeIdle /\ AcceptIdle /\ ExtraIdle

\* after_stage with the Lookup arm continuing like Matching instead of breaking.
after_stage_lookup_continues(match_found, next_stage) ==
    IF match_found /\ strategy \in {"Matching", "Lookup"} THEN "loop"
    ELSE next_stage

\* after_stage with the Matching arm falling through like Filtering.
after_stage_matching_falls_through(match_found, next_stage) ==
    IF match_found /\ strategy = "Lookup" THEN "return"
    ELSE next_stage

\* Where the code goes after a stage: on a match Matching continues with the
\* next requested identifier and Lookup breaks out of the loop.
after_stage(match_found, next_stage) ==
    IF match_found /\ strategy = "Matching" THEN "loop"
    ELSE IF match_found /\ strategy = "Lookup" THEN "return"
    ELSE next_stage

\* retain that inserts the matches at the front of supported_locales.
retain_push_front(r, available_range, requested_range, stage, next_stage) ==
    LET matched == {k \in av_map : matches(available[k], r, available_range, requested_range)}
    IN  IF matched = {}
        THEN /\ UNCHANGED <<av_map, supported, found>>
             /\ pc' = after_stage(FALSE, next_stage)
        ELSE IF strategy = "Filtering"
        THEN \E order \in Orders(matched) :
                /\ supported' = order \o supported
                /\ found' = [i \in 1..Len(order) |-> <<ri, stage>>] \o found
                /\ av_map' = av_map \ matched
                /\ pc' = after_stage(TRUE, next_stage)
        ELSE \E k \in matched :
                /\ supported' = <<k>> \o supported
                /\ found' = << <<ri, stage>> >> \o found
                /\ av_map' = av_map \ {k}
                /\ pc' = after_stage(TRUE, next_stage)

\* retain whose closure returns true for a match, leaving it in the pool.
retain_keeps_match(r, available_range, requested_range, stage, next_stage) ==
    LET matched == {k \in av_map : matches(available[k], r, available_range, requested_range)}
    IN  IF matched = {}
        THEN /\ UNCHANGED <<av_map, supported, found>>
             /\ pc' = after_stage(FALSE, next_stage)
        ELSE IF strategy = "Filtering"
        THEN \E order \in Orders(matched) :
                /\ supported' = supported \o order
                /\ found' = found \o [i \in 1..Len(order) |-> <<ri, stage>>]
                /\ av_map' = av_map
                /\ pc' = after_stage(TRUE, next_stage)
        ELSE \E k \in matched :
                /\ supported' = Append(supported, k)
                /\ found' = Append(found, <<ri, stage>>)
                /\ av_map' = av_map
                /\ pc' = after_stage(TRUE, next_stage)

\* av_map.retain(|key, value| ...) of one stage, for the requested identifier
\* r and the range flags of the stage.  HashMap iterates in an unspecified
\* order (std's RandomState seeds every map differently), so the matched
\* entries are pushed in any order, and when the strategy is not Filtering
\* the single entry pushed is any of the matching ones.
retain(r, available_range, requested_range, stage, next_stage) ==
    LET matched == {k \in av_map : matches(available[k], r, available_range, requested_range)}
    IN  IF matched = {}
        THEN /\ UNCHANGED <<av_map, supported, found>>
             /\ pc' = after_stage(FALSE, next_stage)
        ELSE IF strategy = "Filtering"
        THEN \E order \in Orders(matched) :
                /\ supported' = supported \o order
                /\ found' = found \o [i \in 1..Len(order) |-> <<ri, stage>>]
                /\ av_map' = av_map \ matched
                /\ pc' = after_stage(TRUE, next_stage)
        ELSE \E k \in matched :
                /\ supported' = Append(supported, k)
                /\ found' = Append(found, <<ri, stage>>)
                /\ av_map' = av_map \ {k}
                /\ pc' = after_stage(TRUE, next_stage)

\* The loop head without the check for an undetermined language.
NextRequested_without_und_check ==
    /\ pc = "loop"
    /\ IF ri = Len(requested)
       THEN /\ pc' = "return"
            /\ UNCHANGED <<ri, req>>
       ELSE /\ ri' = ri + 1
            /\ req' = requested[ri + 1]
            /\ pc' = "stage1"
    /\ UNCHANGED <<requested, available, default, strategy, av_map, supported, found>>
    /\ UNCHANGED <<pvars, lvars, mvars, avars, evars>>

\* for req in requested { if req.get_language() == "und" { continue; } ... }
\* filter_matches works on unic_langid's LanguageIdentifier, whose
\* get_language() gives "und" exactly when the language is absent (the
\* get_language of locale/mod.rs above gives "" and serves matches only).
NextRequested ==
    /\ pc = "loop"
    /\ IF ri = Len(requested)
       THEN /\ pc' = "return"
            /\ UNCHANGED <<ri, req>>
       ELSE /\ ri' = ri + 1
            /\ req' = requested[ri + 1]
            /\ pc' = IF requested[ri + 1].language = Absent THEN "loop" ELSE "stage1"
    /\ UNCHANGED <<requested, available, default, strategy, av_map, supported, found>>
    /\ UNCHANGED <<pvars, lvars, mvars, avars, evars>>

\* 1) Try to find a simple (case-insensitive) string match for the request.
Stage1 ==
    /\ pc = "stage1"
    /\ retain(req, FALSE, FALSE, 1, "stage2")
    /\ UNCHANGED <<requested, available, default, strategy, ri, req>>
    /\ UNCHANGED <<pvars, lvars, mvars, avars, evars>>

\* 2) Try to match against the available locales treated as ranges.
Stage2 ==
    /\ pc = "stage2"
    /\ retain(req, TRUE, FALSE, 2, "stage3")
    /\ UNCHANGED <<requested, available, default, strategy, ri, req>>
    /\ UNCHANGED <<pvars, lvars, mvars, avars, evars>>

\* 3) Try to match against a maximized version of the requested locale
Stage3 ==
    /\ pc = "stage3"
    /\ LET m == add(req) IN
       IF m # <<>>
       THEN /\ retain(m[1], TRUE, FALSE, 3, "stage4")
            /\ req' = m[1]
       ELSE /\ pc' = "stage4"
            /\ UNCHANGED <<av_map, supported, found, req>>
    /\ UNCHANGED <<requested, available, default, strategy, ri>>
    /\ UNCHANGED <<pvars, lvars, mvars, avars, evars>>

\* 4) Try to match against a variant as a range
Stage4 ==
    /\ pc = "stage4"
    /\ LET r == set_variants_empty(req) IN
       /\ req' = r
       /\ retain(r, TRUE, TRUE, 4, "stage5")
    /\ UNCHANGED <<requested, available, default, strategy, ri>>
    /\ UNCHANGED <<pvars, lvars, mvars, avars, evars>>

\* 5) Try to match against the likely subtag without region
Stage5 ==
    /\ pc = "stage5"
    /\ LET r == set_region_none(req)
           m == add(r)
       IN  /\ req' = r
           /\ IF m # <<>>
              THEN retain(m[1], TRUE, FALSE, 5, "stage6")
              ELSE /\ pc' = "stage6"
                   /\ UNCHANGED <<av_map, supported, found>>
    /\ UNCHANGED <<requested, available, default, strategy, ri>>
    /\ UNCHANGED <<pvars, lvars, mvars, avars, evars>>

\* 6) Try to match against a region as a range
Stage6 ==
    /\ pc = "stage6"
    /\ LET r == set_region_none(req) IN
       /\ req' = r
       /\ retain(r, TRUE, TRUE, 6, "loop")
    /\ UNCHANGED <<requested, available, default, strategy, ri>>
    /\ UNCHANGED <<pvars, lvars, mvars, avars, evars>>

\* ------------------------------------------------------------------------
\* negotiate_languages
\* ------------------------------------------------------------------------
\* with_default pushing the default without looking for it in the matches.
with_default_always(sup) ==
    IF default # <<>>
    THEN IF strategy = "Lookup"
         THEN IF sup = <<>> THEN Append(sup, 0) ELSE sup
         ELSE Append(sup, 0)
    ELSE sup

\* with_default putting the default in front of the matches.
with_default_first(sup) ==
    IF default # <<>>
    THEN IF strategy = "Lookup"
         THEN IF sup = <<>> THEN <<0>> \o sup ELSE sup
         ELSE IF ~(\E i \in 1..Len(sup) : Deref(sup[i]) = default[1])
              THEN <<0>> \o sup
              ELSE sup
    ELSE sup

\* The list negotiate_languages returns for the list filter_matches returned.
with_default(sup) ==
    IF default # <<>>
    THEN IF strategy = "Lookup"
         THEN IF sup = <<>> THEN Append(sup, 0) ELSE sup
         ELSE IF ~(\E i \in 1..Len(sup) : Deref(sup[i]) = default[1])
              THEN Append(sup, 0)
              ELSE sup
    ELSE sup

\* let mut supported = filter_matches(..); if let Some(default) = default {..}
AppendDefault ==
    /\ pc = "return"
    /\ supported' = with_default(supported)
    /\ pc' = "done"
    /\ UNCHANGED <<requested, available, default, strategy, av_map, found, ri, req>>
    /\ UNCHANGED <<pvars, lvars, mvars, avars, evars>>

Next ==
    \/ NextRequested
    \/ Stage1
    \/ Stage2
    \/ Stage3
    \/ Stage4
    \/ Stage5
    \/ Stage6
    \/ AppendDefault

Spec == Init /\ [][Next]_vars

\* ------------------------------------------------------------------------
\* The six stages as functions of the requested identifier
\* ------------------------------------------------------------------------
\* The binding `req` after stage 3: the maximized copy when add gave one.
req_after_stage3(r) == LET m == add(r) IN IF m # <<>> THEN m[1] ELSE r

\* The identifier stage k matches against for the requested identifier r:
\* <<>> when the stage is not run at all, <<x>> when it is run with x.
stage_request(r, k) ==
    IF r.language = Absent THEN <<>>
    ELSE CASE k = 1 -> <<r>>
           [] k = 2 -> <<r>>
           [] k = 3 -> add(r)
           [] k = 4 -> <<set_variants_empty(req_after_stage3(r))>>
           [] k = 5 -> add(set_region_none(set_variants_empty(req_after_stage3(r))))
           [] k = 6 -> <<set_region_none(set_variants_empty(req_after_stage3(r)))>>

\* The range flags of stage k: <<available_range, requested_range>>.
stage_flags(k) ==
    CASE k = 1 -> <<FALSE, FALSE>>
      [] k = 2 -> <<TRUE, FALSE>>
      [] k = 3 -> <<TRUE, FALSE>>
      [] k = 4 -> <<TRUE, TRUE>>
      [] k = 5 -> <<TRUE, FALSE>>
      [] k = 6 -> <<TRUE, TRUE>>

\* stage_request tabulated over the identifiers the caller may request.
stage_request_of == [r \in RequestedLocales |-> [k \in 1..6 |-> stage_request(r, k)]]

\* The available identifier a matches the requested identifier r at stage k.
stage_matches(r, k, a) ==
    LET sr == stage_request_of[r][k] IN
    /\ sr # <<>>
    /\ matches(a, sr[1], stage_flags(k)[1], stage_flags(k)[2])

Stages == 1..6

\* ------------------------------------------------------------------------
\* Vocabulary of the properties
\* ------------------------------------------------------------------------
Done == pc = "done"

en == Loc("en", Absent, Absent, <<>>)
en_CA == Loc("en", Absent, "CA", <<>>)
en_US == Loc("en", Absent, "US", <<>>)
en_GB == Loc("en", Absent, "GB", <<>>)

\* <<requested index, stage>> pairs in the order the code visits them.
Before(p, q) == p[1] < q[1] \/ (p[1] = q[1] /\ p[2] < q[2])
NotAfter(p, q) == p = q \/ Before(p, q)

\* The list filter_matches returned: the result without an appended default.
Matched == SubSeq(supported, 1, Len(found))

\* The requested index and stage at which the identifier a first matches.
Hits(a) ==
    {p \in (1..Len(requested)) \X Stages : stage_matches(requested[p[1]], p[2], a)}
FirstHit(a) == LET h == Hits(a) IN CHOOSE p \in h : \A q \in h : NotAfter(p, q)

\* The pool as it was before the i-th match was pushed.
PoolBefore(i) == av_map_insert_all(available) \ {supported[j] : j \in 1..(i - 1)}

\* C1: the matches are listed in discovery order: an entry matched for an
\* earlier requested identifier precedes one matched for a later requested
\* identifier, and for one requested identifier an entry matched at an
\* earlier stage precedes one matched at a later stage; under Filtering the
\* place of an entry is the first requested identifier and stage it matches
\* at, so requested [en-CA], available [en-GB, en-US] gives [en-US, en-GB].
C1_DiscoveryOrder ==
    /\ \A i, j \in 1..Len(found) : i < j => NotAfter(found[i], found[j])
    /\ \A i \in 1..Len(found) :
          stage_matches(requested[found[i][1]], found[i][2], Deref(supported[i]))
    /\ (Done /\ strategy = "Filtering") =>
          \A i \in 1..Len(found) : found[i] = FirstHit(Deref(supported[i]))
    /\ (Done /\ strategy = "Filtering" /\ default = <<>>
          /\ requested = <<en_CA>> /\ available = <<en_GB, en_US>>) =>
          Values(supported) = <<en_US, en_GB>>

C1_Witness ==
    /\ Done /\ strategy = "Filtering" /\ default = <<>>
    /\ requested = <<en_CA>> /\ available = <<en_GB, en_US>>
    /\ found = << <<1, 5>>, <<1, 6>> >>

\* C2: within one stage for one requested identifier the matched entries are
\* appended in their original relative order in available.
C2_StageKeepsAvailableOrder ==
    \A i, j \in 1..Len(found) :
        (i < j /\ found[i] = found[j]) => supported[i] < supported[j]

\* C3: under Filtering with no default the result holds exactly the entries
\* of available, each position counted separately, that match some requested
\* identifier at one of the six stages.
C3_FilteringReturnsEveryPosition ==
    (Done /\ strategy = "Filtering" /\ default = <<>>) =>
        /\ \A i \in 1..Len(available) :
              (Hits(available[i]) # {}) <=> (\E k \in 1..Len(supported) : supported[k] = i)
        /\ \A k, l \in 1..Len(supported) : supported[k] = supported[l] => k = l

AllHits == UNION {Hits(available[k]) : k \in 1..Len(available)}

InStage == pc \in {"stage1", "stage2", "stage3", "stage4", "stage5", "stage6"}

\* C5: under Lookup the result has at most one entry: the first match found
\* (first requested identifier that matches, at its earliest matching stage),
\* after which no further stage or requested identifier is processed; the
\* default is appended only when no match was found, so with a default
\* supplied the result has exactly one entry.
C5_LookupFirstMatchOnly ==
    strategy = "Lookup" =>
        /\ Len(found) <= 1
        /\ found # <<>> =>
              /\ pc \in {"return", "done"}
              /\ ri = found[1][1]
              /\ \A q \in AllHits : NotAfter(found[1], q)
              /\ stage_matches(requested[found[1][1]], found[1][2], available[supported[1]])
        /\ Done =>
              /\ (found = <<>>) <=> (AllHits = {})
              /\ Len(supported) <= 1
              /\ (found # <<>>) => (Len(supported) = 1 /\ supported[1] # 0)
              /\ (found = <<>> /\ default # <<>>) => supported = <<0>>
              /\ (default = <<>>) => (\A i \in 1..Len(supported) : supported[i] # 0)
              /\ (default # <<>>) => Len(supported) = 1

C5_Witness ==
    /\ Done /\ strategy = "Lookup" /\ default # <<>>
    /\ Len(requested) = 2
    /\ found = << <<2, 6>> >>
    /\ Len(supported) = 1

\* The pool as it was when the loop took the r-th requested identifier.
PoolAt(r) ==
    av_map_insert_all(available) \ {supported[i] : i \in {j \in 1..Len(found) : found[j][1] < r}}

\* C6: under Matching each requested identifier contributes at most one
\* entry, taken at the earliest stage at which a remaining available entry
\* matches it; once a stage has matched, the later stages are not run for
\* that requested identifier and the loop moves on to the next one.
C6_MatchingOneStagePerRequested ==
    strategy = "Matching" =>
        /\ \A i, j \in 1..Len(found) : i # j => found[i][1] # found[j][1]
        /\ \A i \in 1..Len(found) :
              /\ supported[i] \in PoolBefore(i)
              /\ stage_matches(requested[found[i][1]], found[i][2], available[supported[i]])
              /\ \A s \in 1..(found[i][2] - 1) : \A k \in PoolBefore(i) :
                    ~stage_matches(requested[found[i][1]], s, available[k])
        /\ InStage => \A i \in 1..Len(found) : found[i][1] # ri
        /\ Done =>
              \A r \in 1..Len(requested) :
                  (\A i \in 1..Len(found) : found[i][1] # r) =>
                      \A k \in PoolAt(r) : \A s \in Stages :
                          ~stage_matches(requested[r], s, available[k])

C6_Witness ==
    /\ Done /\ strategy = "Matching"
    /\ requested = <<en, en>>
    /\ found = << <<1, 3>>, <<2, 6>> >>

\* How often the identifier of the default occurs in a list of references.
DefaultCount(refs) == Cardinality({i \in 1..Len(refs) : Deref(refs[i]) = default[1]})

\* C7: under Filtering and Matching a supplied default is appended as the
\* last element if and only if no element of the matches equals it by
\* value; the matches before it keep their entries and order, and the
\* default never occurs twice in the result.
C7_DefaultAppendedIfMissing ==
    [][ (pc = "return" /\ pc' = "done" /\ strategy \in {"Filtering", "Matching"}
            /\ default # <<>>) =>
            /\ (\E i \in 1..Len(supported) : Deref(supported[i]) = default[1])
                  => supported' = supported
            /\ ~(\E i \in 1..Len(supported) : Deref(supported[i]) = default[1])
                  => supported' = supported \o <<0>>
            /\ DefaultCount(supported') = 1 ]_vars

C7_Witness ==
    /\ Done /\ strategy = "Filtering" /\ default = <<en_US>>
    /\ Len(found) = 2 /\ Len(supported) = 2
    /\ Deref(supported[2]) = en_US

\* C8 as stated: every element of the returned list is an element of
\* available, for every requested list, default and strategy.
C8_ResultWithinAvailable ==
    \A i \in 1..Len(supported) :
        \E k \in 1..Len(available) : Deref(supported[i]) = available[k]

\* C8 amended: every element of the returned list is a reference into
\* available, except that the last element may be the supplied default,
\* which is appended whether or not available holds it.
C8_ResultWithinAvailableOrDefault ==
    \A i \in 1..Len(supported) :
        /\ supported[i] \in 0..Len(available)
        /\ supported[i] = 0 => (Done /\ default # <<>> /\ i = Len(supported))

C8_Witness ==
    /\ Done /\ default # <<>>
    /\ Len(supported) = 2 /\ supported[1] # 0 /\ supported[2] = 0
    /\ \A k \in 1..Len(available) : available[k] # default[1]

\* C9 as stated: a requested identifier with an undetermined language still
\* goes through stages 1 and 2, so an available entry that equals it or
\* matches it as a range is returned.
C9_UndGoesThroughStages1And2 ==
    (Done /\ strategy = "Filtering") =>
        \A r \in 1..Len(requested) : \A k \in 1..Len(available) :
            ( /\ requested[r].language = Absent
              /\ \/ matches(available[k], requested[r], FALSE, FALSE)
                 \/ matches(available[k], requested[r], TRUE, FALSE) )
            => \E i \in 1..Len(Matched) : Deref(Matched[i]) = available[k]

\* C9 amended: a requested identifier with an undetermined language is
\* skipped before stage 1: none of the six stages runs for it and it
\* contributes no entry, even when an available entry equals it.
C9_UndIsSkipped ==
    /\ \A i \in 1..Len(found) : requested[found[i][1]].language # Absent
    /\ InStage => (requested[ri].language # Absent /\ req.language # Absent)
    /\ (Done /\ \A r \in 1..Len(requested) : requested[r].language = Absent)
          => Matched = <<>>

C9_Witness ==
    /\ Done /\ default = <<>>
    /\ requested = <<EmptyLoc>> /\ available = <<EmptyLoc>>
    /\ supported = <<>>

\* A requested identifier that is a language and nothing else.
LanguageOnly(r) ==
    /\ r.language # Absent /\ r.script = Absent /\ r.region = Absent
    /\ r.variants = <<>>

\* One language-only requested identifier that the expander maximizes.
RescueCase ==
    /\ Len(requested) = 1 /\ LanguageOnly(requested[1])
    /\ add(requested[1]) # <<>>

\* The available entry a has the language and region of the maximized form m
\* and nothing that keeps it from matching m as a range.
Likely(a, m) ==
    /\ a.language = m.language /\ a.region = m.region
    /\ a.script \in {Absent, m.script} /\ a.variants = <<>>

\* The available entry a has the language of m and another region.
OtherRegion(a, m) ==
    /\ a.language = m.language /\ a.region \notin {Absent, m.region}

LowerLetters ==
    <<"a", "b", "c", "d", "e", "f", "g", "h", "i", "j", "k", "l", "m",
      "n", "o", "p", "q", "r", "s", "t", "u", "v", "w", "x", "y", "z">>
UpperLetters ==
    <<"A", "B", "C", "D", "E", "F", "G", "H", "I", "J", "K", "L", "M",
      "N", "O", "P", "Q", "R", "S", "T", "U", "V", "W", "X", "Y", "Z">>
DigitChars == <<"0", "1", "2", "3", "4", "5", "6", "7", "8", "9">>

\* The ASCII characters of the model in the order of their codes.
AsciiOrder ==
    <<"\t", " ", ",", "-", ".">> \o DigitChars \o <<";", "=">> \o UpperLetters
        \o <<"_">> \o LowerLetters

SeqRange(s) == {s[i] : i \in 1..Len(s)}
IndexOf(s, c) == CHOOSE i \in 1..Len(s) : s[i] = c

\* char::is_ascii, is_ascii_alphabetic, is_ascii_digit
char_is_ascii(c) == c \in SeqRange(AsciiOrder)
is_ascii_alphabetic(c) == c \in SeqRange(LowerLetters) \cup SeqRange(UpperLetters)
is_ascii_digit(c) == c \in SeqRange(DigitChars)

\* str::is_ascii
is_ascii(s) == \A i \in 1..Len(s) : char_is_ascii(s[i])

\* char and str to_ascii_lowercase / to_ascii_uppercase
char_to_ascii_lowercase(c) ==
    IF c \in SeqRange(UpperLetters) THEN LowerLetters[IndexOf(UpperLetters, c)] ELSE c
char_to_ascii_uppercase(c) ==
    IF c \in SeqRange(LowerLetters) THEN UpperLetters[IndexOf(LowerLetters, c)] ELSE c
to_ascii_lowercase(s) == [i \in 1..Len(s) |-> char_to_ascii_lowercase(s[i])]
to_ascii_uppercase(s) == [i \in 1..Len(s) |-> char_to_ascii_uppercase(s[i])]

\* s[0..1].make_ascii_uppercase()
make_first_ascii_uppercase(s) ==
    [i \in 1..Len(s) |-> IF i = 1 THEN char_to_ascii_uppercase(s[i]) ELSE s[i]]

\* Ord of str: byte-wise lexicographic.
RECURSIVE str_lt(_, _)
str_lt(a, b) ==
    IF b = <<>> THEN FALSE
    ELSE IF a = <<>> THEN TRUE
    ELSE IF a[1] # b[1] THEN IndexOf(AsciiOrder, a[1]) < IndexOf(AsciiOrder, b[1])
    ELSE str_lt(Tail(a), Tail(b))

\* str::split(|c| c in seps): the pieces between the separators.
RECURSIVE split(_, _)
split(s, seps) ==
    IF \A i \in 1..Len(s) : s[i] \notin seps THEN <<s>>
    ELSE LET i == CHOOSE k \in 1..Len(s) :
                     s[k] \in seps /\ \A j \in 1..(k - 1) : s[j] \notin seps
         IN  <<SubSeq(s, 1, i - 1)>> \o split(SubSeq(s, i + 1, Len(s)), seps)

\* [..].join(sep)
RECURSIVE join(_, _)
join(parts, sep) ==
    IF parts = <<>> THEN <<>>
    ELSE IF Len(parts) = 1 THEN parts[1]
    ELSE parts[1] \o sep \o join(Tail(parts), sep)

\* Option: None is <<>>, Some(v) is <<v>>.
None == <<>>
Some(v) == <<v>>

\* Result: Ok(v), Err(e), and a call that panicked.
Ok(v) == [kind |-> "Ok", val |-> v]
Err(e) == [kind |-> "Err", val |-> e]
Panicked == [kind |-> "Panic", val |-> <<>>]

\* BTreeMap: a function; insert, and the keys in iteration (ascending) order.
map_insert(m, k, v) == [x \in (DOMAIN m) \cup {k} |-> IF x = k THEN v ELSE m[x]]
map_keys(m) ==
    CHOOSE o \in Orders(DOMAIN m) : \A i, j \in 1..Len(o) : i < j => str_lt(o[i], o[j])

\* ------------------------------------------------------------------------
\* Locale (src/src/locale/mod.rs) and its parser (src/src/locale/parser.rs)
\* ------------------------------------------------------------------------
\* struct Locale as parse_language_tag creates it: every field None, no
\* private-use subtag.
EmptyLocale ==
    [language |-> None, extlangs |-> None, script |-> None, region |-> None,
     variants |-> None, extensions |-> None, privateuse |-> <<>>]

\* pub fn ext_name_for_key / ext_key_for_name
ext_name_for_key(key) == IF key = <<"u">> THEN <<"u", "n", "i", "c", "o", "d", "e">> ELSE key
ext_key_for_name(key) == IF key = <<"u", "n", "i", "c", "o", "d", "e">> THEN <<"u">> ELSE key

\* pub fn option_name_for_key / option_key_for_name: None stands for the
\* unimplemented!() of the last arm, which panics.
option_name_for_key(key) ==
    IF key = <<"h", "c">> THEN Some(<<"h", "o", "u", "r", "-", "c", "y", "c", "l", "e">>)
    ELSE IF key = <<"c", "a">> THEN Some(<<"c", "a", "l", "e", "n", "d", "a", "r">>)
    ELSE None
option_key_for_name(key) ==
    IF key = <<"h", "o", "u", "r", "-", "c", "y", "c", "l", "e">> THEN Some(<<"h", "c">>)
    ELSE IF key = <<"c", "a", "l", "e", "n", "d", "a", "r">> THEN Some(<<"c", "a">>)
    ELSE None

\* pub fn parse_language_subtag(t)
parse_language_subtag(s) ==
    IF Len(s) < 2 \/ Len(s) > 3 \/ (\E i \in 1..Len(s) : ~is_ascii_alphabetic(s[i]))
    THEN Err("InvalidLanguage")
    ELSE Ok(to_ascii_lowercase(s))

\* pub fn parse_script_subtag(t)
parse_script_subtag(s) ==
    IF Len(s) # 4 \/ (\E i \in 1..Len(s) : ~is_ascii_alphabetic(s[i]))
    THEN Err("InvalidSubtag")
    ELSE Ok(make_first_ascii_uppercase(to_ascii_lowercase(s)))

\* pub fn parse_region_subtag(t)
parse_region_subtag(s) ==
    IF \/ (Len(s) = 2 /\ \A i \in 1..Len(s) : is_ascii_alphabetic(s[i]))
       \/ (Len(s) = 3 /\ \A i \in 1..Len(s) : is_ascii_digit(s[i]))
    THEN Ok(to_ascii_uppercase(s))
    ELSE Err("InvalidSubtag")

\* The outcome of a &mut self method: the Result it returned and the locale
\* it left behind.
Outcome(res, loc) == [res |-> res, locale |-> loc]

\* set_language that clears the field before validating the new value.
Locale_set_language_clears_first(self, value) ==
    IF value # <<>> /\ value # <<"u", "n", "d">>
    THEN LET r == parse_language_subtag(value) IN
         IF r.kind = "Ok"
         THEN Outcome(Ok(<<>>), [self EXCEPT !.language = Some(r.val)])
         ELSE Outcome(r, [self EXCEPT !.language = None])
    ELSE Outcome(Ok(<<>>), [self EXCEPT !.language = None])

\* Locale::set_language(&mut self, value)
Locale_set_language(self, value) ==
    IF value # <<>> /\ value # <<"u", "n", "d">>
    THEN LET r == parse_language_subtag(value) IN
         IF r.kind = "Ok"
         THEN Outcome(Ok(<<>>), [self EXCEPT !.language = Some(r.val)])
         ELSE Outcome(r, self)
    ELSE Outcome(Ok(<<>>), [self EXCEPT !.language = None])

\* Locale::set_script(&mut self, value)
Locale_set_script(self, value) ==
    IF value # <<>>
    THEN LET r == parse_script_subtag(value) IN
         IF r.kind = "Ok"
         THEN Outcome(Ok(<<>>), [self EXCEPT !.script = Some(r.val)])
         ELSE Outcome(r, self)
    ELSE Outcome(Ok(<<>>), [self EXCEPT !.script = None])

\* Locale::set_region(&mut self, value)
Locale_set_region(self, value) ==
    IF value # <<>>
    THEN LET r == parse_region_subtag(value) IN
         IF r.kind = "Ok"
         THEN Outcome(Ok(<<>>), [self EXCEPT !.region = Some(r.val)])
         ELSE Outcome(r, self)
    ELSE Outcome(Ok(<<>>), [self EXCEPT !.region = None])

\* Locale::get_language / get_script / get_region: "" for None.
Locale_get_language(self) == IF self.language = None THEN <<>> ELSE self.language[1]
Locale_get_script(self) == IF self.script = None THEN <<>> ELSE self.script[1]
Locale_get_region(self) == IF self.region = None THEN <<>> ELSE self.region[1]

\* Locale::add_variant(&mut self, value)
Locale_add_variant(self, value) ==
    IF self.variants # None
    THEN [self EXCEPT !.variants = Some(Append(self.variants[1], value))]
    ELSE [self EXCEPT !.variants = Some(<<value>>)]

\* Locale::remove_variant(&mut self, value): removes the first equal variant.
Locale_remove_variant(self, value) ==
    IF self.variants # None /\ (\E i \in 1..Len(self.variants[1]) : self.variants[1][i] = value)
    THEN LET v == self.variants[1]
             position == CHOOSE i \in 1..Len(v) :
                            v[i] = value /\ \A j \in 1..(i - 1) : v[j] # value
         IN  [self EXCEPT !.variants =
                 Some(SubSeq(v, 1, position - 1) \o SubSeq(v, position + 1, Len(v)))]
    ELSE self

\* Locale::clear_variants(&mut self)
Locale_clear_variants(self) == [self EXCEPT !.variants = None]

\* Locale::add_extension(&mut self, ext_name, key, value)
Locale_add_extension(self, ext_name, key, value) ==
    IF self.extensions # None
    THEN LET extensions == self.extensions[1]
             ext == IF ext_name \in DOMAIN extensions THEN extensions[ext_name] ELSE <<>>
         IN  [self EXCEPT !.extensions =
                 Some(map_insert(extensions, ext_name, map_insert(ext, key, value)))]
    ELSE [self EXCEPT !.extensions =
             Some(map_insert(<<>>, ext_name, map_insert(<<>>, key, value)))]

\* The state of the for loop of parse_language_tag: its locals, and `out`,
\* which is None while the loop runs and Some(outcome) once the function has
\* returned an error or panicked.
ParserState(loc, position, current_extension, ext_key, out) ==
    [locale |-> loc, position |-> position, current_extension |-> current_extension,
     ext_key |-> ext_key, out |-> out]

Return(st, outcome) == [st EXCEPT !.out = Some(outcome)]

all_alphabetic(s) == \A i \in 1..Len(s) : is_ascii_alphabetic(s[i])
all_digit(s) == \A i \in 1..Len(s) : is_ascii_digit(s[i])

\* The None arm of `match current_extension` for a one-character subtag.
open_extension(st, subtag) ==
    IF \E i \in 1..Len(subtag) : ~is_ascii_alphabetic(subtag[i])
    THEN Return(st, Err("InvalidSubtag"))
    ELSE LET ext_name == ext_name_for_key(subtag) IN
         IF st.locale.extensions # None
         THEN IF ext_name \in DOMAIN st.locale.extensions[1]
              THEN Return(st, Err("DuplicateExtension"))
              ELSE [st EXCEPT !.locale.extensions =
                                  Some(map_insert(st.locale.extensions[1], ext_name, <<>>)),
                              !.current_extension = Some(ext_name)]
         ELSE [st EXCEPT !.locale.extensions = Some(map_insert(<<>>, ext_name, <<>>)),
                         !.current_extension = Some(ext_name)]

\* The Some(ext) arm of `match current_extension`.
in_extension(st, subtag) ==
    LET ext == st.current_extension[1] IN
    IF ext = <<"x">>
    THEN [st EXCEPT !.locale.privateuse = Append(st.locale.privateuse, subtag)]
    ELSE IF st.ext_key # None
    THEN IF st.locale.extensions # None
         THEN LET exts == st.locale.extensions[1] IN
              IF ext \in DOMAIN exts
              THEN [st EXCEPT !.locale.extensions =
                        Some(map_insert(exts, ext, map_insert(exts[ext], st.ext_key[1], subtag))),
                              !.ext_key = None]
              ELSE Return(st, Panicked)
         ELSE st
    ELSE LET name == option_name_for_key(subtag) IN
         IF name = None THEN Return(st, Panicked)
         ELSE [st EXCEPT !.ext_key = name]

\* in_langid with the variant rule "four or more characters starting with a
\* letter, or five or more starting with a digit".
in_langid_variant_lengths_swapped(st, subtag) ==
    LET slen == Len(subtag) IN
    IF st.position = 0
    THEN IF slen < 2 \/ slen > 3
         THEN Return(st, Err("InvalidLanguage"))
         ELSE LET o == Locale_set_language(st.locale, subtag) IN
              IF o.res.kind = "Err"
              THEN Return(st, Err("InvalidLanguage"))
              ELSE [st EXCEPT !.locale = o.locale,
                              !.position = IF slen < 4 THEN 1 ELSE 2]
    ELSE IF st.position = 1 /\ slen = 3 /\ all_alphabetic(subtag)
    THEN IF st.locale.extlangs # None
         THEN [st EXCEPT !.locale.extlangs = Some(Append(st.locale.extlangs[1], subtag))]
         ELSE [st EXCEPT !.locale.extlangs = Some(<<subtag>>)]
    ELSE IF st.position <= 2 /\ slen = 4 /\ all_alphabetic(subtag)
    THEN LET o == Locale_set_script(st.locale, subtag) IN
         IF o.res.kind = "Err" THEN Return(st, o.res)
         ELSE [st EXCEPT !.locale = o.locale, !.position = 3]
    ELSE IF st.position <= 3
            /\ ((slen = 2 /\ all_alphabetic(subtag)) \/ (slen = 3 /\ all_digit(subtag)))
    THEN LET o == Locale_set_region(st.locale, subtag) IN
         IF o.res.kind = "Err" THEN Return(st, o.res)
         ELSE [st EXCEPT !.locale = o.locale, !.position = 4]
    ELSE IF st.position <= 4
            /\ ((slen >= 4 /\ is_ascii_alphabetic(subtag[1]))
                \/ (slen >= 5 /\ is_ascii_digit(subtag[1])))
    THEN [st EXCEPT !.locale = Locale_add_variant(st.locale, subtag), !.position = 4]
    ELSE Return(st, Err("InvalidSubtag"))

\* in_langid with a script rule that does not look at the position.
in_langid_script_at_any_position(st, subtag) ==
    LET slen == Len(subtag) IN
    IF st.position = 0
    THEN IF slen < 2 \/ slen > 3
         THEN Return(st, Err("InvalidLanguage"))
         ELSE LET o == Locale_set_language(st.locale, subtag) IN
              IF o.res.kind = "Err"
              THEN Return(st, Err("InvalidLanguage"))
              ELSE [st EXCEPT !.locale = o.locale,
                              !.position = IF slen < 4 THEN 1 ELSE 2]
    ELSE IF st.position = 1 /\ slen = 3 /\ all_alphabetic(subtag)
    THEN IF st.locale.extlangs # None
         THEN [st EXCEPT !.locale.extlangs = Some(Append(st.locale.extlangs[1], subtag))]
         ELSE [st EXCEPT !.locale.extlangs = Some(<<subtag>>)]
    ELSE IF slen = 4 /\ all_alphabetic(subtag)
    THEN LET o == Locale_set_script(st.locale, subtag) IN
         IF o.res.kind = "Err" THEN Return(st, o.res)
         ELSE [st EXCEPT !.locale = o.locale, !.position = 3]
    ELSE IF st.position <= 3
            /\ ((slen = 2 /\ all_alphabetic(subtag)) \/ (slen = 3 /\ all_digit(subtag)))
    THEN LET o == Locale_set_region(st.locale, subtag) IN
         IF o.res.kind = "Err" THEN Return(st, o.res)
         ELSE [st EXCEPT !.locale = o.locale, !.position = 4]
    ELSE IF st.position <= 4
            /\ ((slen >= 5 /\ is_ascii_alphabetic(subtag[1]))
                \/ (slen >= 4 /\ is_ascii_digit(subtag[1])))
    THEN [st EXCEPT !.locale = Locale_add_variant(st.locale, subtag), !.position = 4]
    ELSE Return(st, Err("InvalidSubtag"))

\* The None arm of `match current_extension` for the other subtags: primary
\* language, extlangs, script, region, variant.
in_langid(st, subtag) ==
    LET slen == Len(subtag) IN
    IF st.position = 0
    THEN IF slen < 2 \/ slen > 3
         THEN Return(st, Err("InvalidLanguage"))
         ELSE LET o == Locale_set_language(st.locale, subtag) IN
              IF o.res.kind = "Err"
              THEN Return(st, Err("InvalidLanguage"))
              ELSE [st EXCEPT !.locale = o.locale,
                              !.position = IF slen < 4 THEN 1 ELSE 2]
    ELSE IF st.position = 1 /\ slen = 3 /\ all_alphabetic(subtag)
    THEN IF st.locale.extlangs # None
         THEN [st EXCEPT !.locale.extlangs = Some(Append(st.locale.extlangs[1], subtag))]
         ELSE [st EXCEPT !.locale.extlangs = Some(<<subtag>>)]
    ELSE IF st.position <= 2 /\ slen = 4 /\ all_alphabetic(subtag)
    THEN LET o == Locale_set_script(st.locale, subtag) IN
         IF o.res.kind = "Err" THEN Return(st, o.res)
         ELSE [st EXCEPT !.locale = o.locale, !.position = 3]
    ELSE IF st.position <= 3
            /\ ((slen = 2 /\ all_alphabetic(subtag)) \/ (slen = 3 /\ all_digit(subtag)))
    THEN LET o == Locale_set_region(st.locale, subtag) IN
         IF o.res.kind = "Err" THEN Return(st, o.res)
         ELSE [st EXCEPT !.locale = o.locale, !.position = 4]
    ELSE IF st.position <= 4
            /\ ((slen >= 5 /\ is_ascii_alphabetic(subtag[1]))
                \/ (slen >= 4 /\ is_ascii_digit(subtag[1])))
    THEN [st EXCEPT !.locale = Locale_add_variant(st.locale, subtag), !.position = 4]
    ELSE Return(st, Err("InvalidSubtag"))

\* The loop body without the check of the subtag's length.
parse_subtag_any_length(st, subtag) ==
    IF st.current_extension # None THEN in_extension(st, subtag)
    ELSE IF Len(subtag) = 1 THEN open_extension(st, subtag)
    ELSE in_langid(st, subtag)

\* The body of `for subtag in t.split(..)`.
parse_subtag(st, subtag) ==
    IF Len(subtag) > 8 THEN Return(st, Err("SubtagTooLong"))
    ELSE IF st.current_extension # None THEN in_extension(st, subtag)
    ELSE IF Len(subtag) = 1 THEN open_extension(st, subtag)
    ELSE in_langid(st, subtag)

\* The for loop: the state after the subtags, stopping at the first return.
RECURSIVE parse_subtags(_, _)
parse_subtags(st, subtags) ==
    IF subtags = <<>> \/ st.out # None THEN st
    ELSE parse_subtags(parse_subtag(st, Head(subtags)), Tail(subtags))

\* pub fn parse_language_tag(t) -> Result<Locale>
parse_language_tag(s) ==
    IF ~is_ascii(s) THEN Err("InvalidLanguage")
    ELSE IF s = <<>> THEN Ok(EmptyLocale)
    ELSE LET st == parse_subtags(ParserState(EmptyLocale, 0, None, None, None),
                                 split(s, {"-", "_"}))
         IN  IF st.out # None THEN st.out[1] ELSE Ok(st.locale)

\* The subtags Display pushes for one extension: for (key, value) in ext.
RECURSIVE ext_subtags(_, _)
ext_subtags(keys, ext) ==
    IF keys = <<>> THEN <<>>
    ELSE <<option_key_for_name(Head(keys))[1], ext[Head(keys)]>> \o ext_subtags(Tail(keys), ext)

\* The subtags Display pushes for the extensions: for (name, ext) in extensions.
RECURSIVE extensions_subtags(_, _)
extensions_subtags(names, extensions) ==
    IF names = <<>> THEN <<>>
    ELSE <<ext_key_for_name(Head(names))>>
            \o ext_subtags(map_keys(extensions[Head(names)]), extensions[Head(names)])
            \o extensions_subtags(Tail(names), extensions)

\* impl fmt::Display for Locale, as to_string() gives it; the call panics
\* when an extension holds a key option_key_for_name does not know.
Locale_to_string(self) ==
    LET extensions == IF self.extensions = None THEN <<>> ELSE self.extensions[1]
        subtags == <<Locale_get_language(self)>>
                     \o self.script
                     \o self.region
                     \o (IF self.variants = None THEN <<>> ELSE self.variants[1])
                     \o extensions_subtags(map_keys(extensions), extensions)
    IN  IF \E name \in DOMAIN extensions : \E key \in DOMAIN extensions[name] :
               option_key_for_name(key) = None
        THEN Panicked
        ELSE Ok(join(subtags, <<"-">>))

\* ------------------------------------------------------------------------
\* ParseSpec: parse a tag, print the locale, parse what was printed
\* ------------------------------------------------------------------------
MaxSubtags == 3

\* The subtags the tags of the model are made of.
Subtags ==
    { <<"e", "n">>, <<"u", "n", "d">>, <<"c", "m", "n">>, <<"l", "a", "t", "n">>, <<"u", "s">>, <<"m", "a", "c", "o", "s">>, <<"u">>, <<"x">>,
      <<"h", "c">>, <<"h", "1", "2">>, <<"1", "9", "9", "4">>,
      <<"v", "e", "r", "y", "b", "r", "o", "k", "e", "n">>, <<"d", "é">> }

\* The tags handed to the parser: subtags joined by - or by _.
Tags ==
    {join(subs, <<sep>>) : subs \in SeqsUpTo(Subtags, MaxSubtags), sep \in {"-", "_"}}

ParseInit ==
    /\ t \in Tags
    /\ parsed = <<>> /\ text = <<>> /\ reparsed = <<>>
    /\ ppc = "parse"
    /\ requested = <<>> /\ available = <<>> /\ default = <<>> /\ strategy = "Filtering"
    /\ av_map = {} /\ supported = <<>> /\ found = <<>> /\ ri = 0 /\ req = EmptyLoc
    /\ pc = "idle"
    /\ LocaleIdle /\ MaximizeIdle /\ AcceptIdle /\ ExtraIdle

\* let loc = parse_language_tag(t)
Parse ==
    /\ ppc = "parse"
    /\ parsed' = Some(parse_language_tag(t))
    /\ ppc' = "print"
    /\ UNCHANGED <<t, text, reparsed>>
    /\ UNCHANGED <<nvars, lvars, mvars, avars, evars>>

\* let s = loc.to_string(), for a tag the parser accepted
Display ==
    /\ ppc = "print"
    /\ parsed[1].kind = "Ok"
    /\ text' = Some(Locale_to_string(parsed[1].val))
    /\ ppc' = "reparse"
    /\ UNCHANGED <<t, parsed, reparsed>>
    /\ UNCHANGED <<nvars, lvars, mvars, avars, evars>>

\* parse_language_tag(&s)
Reparse ==
    /\ ppc = "reparse"
    /\ text[1].kind = "Ok"
    /\ reparsed' = Some(parse_language_tag(text[1].val))
    /\ ppc' = "done"
    /\ UNCHANGED <<t, parsed, text>>
    /\ UNCHANGED <<nvars, lvars, mvars, avars, evars>>

ParseNext == Parse \/ Display \/ Reparse

ParseSpec == ParseInit /\ [][ParseNext]_vars

\* ------------------------------------------------------------------------
\* Properties of the parser and of Display
\* ------------------------------------------------------------------------
\* Two results are the same result.
SameResult(a, b) == a.kind = b.kind /\ a.val = b.val

\* The subtags of the tag t and the tag made of its first n subtags.
SubtagsOf(s) == split(s, {"-", "_"})
PrefixTag(s, n) == join(SubSeq(SubtagsOf(s), 1, n), <<"-">>)

Accepted == ppc \in {"print", "reparse", "done"} /\ parsed[1].kind = "Ok"

\* C11: round trip: for every tag x that parse_language_tag accepts, also
\* one with an absent language, extensions or private-use subtags, parsing
\* the serialization of the parsed locale gives the locale of the first
\* parse: parse(to_string(parse(x))) = parse(x).
C11_RoundTrip ==
    /\ (Accepted /\ ppc \in {"reparse", "done"}) => text[1].kind = "Ok"
    /\ (Accepted /\ ppc = "done") => SameResult(reparsed[1], parsed[1])

\* The extensions of a locale without the private-use singleton.
NamedExtensions(self) ==
    LET extensions == IF self.extensions = None THEN <<>> ELSE self.extensions[1]
    IN  [name \in (DOMAIN extensions) \ {<<"x">>} |-> extensions[name]]

\* The serialization C12 describes.
RenderingOfC12(self) ==
    join( <<IF self.language = None THEN <<"u", "n", "d">> ELSE self.language[1]>>
            \o self.script
            \o self.region
            \o (IF self.variants = None THEN <<>> ELSE self.variants[1])
            \o extensions_subtags(map_keys(NamedExtensions(self)), NamedExtensions(self))
            \o (IF self.privateuse # <<>> THEN <<<<"x">>>> \o self.privateuse ELSE <<>>),
          <<"-">> )

\* C12: to_string renders, joined by -, the language, or the placeholder und
\* when the language is absent, then script, region and each variant when
\* present, then each extension as its singleton key followed by its
\* key/value subtags, and last the private-use subtags under the singleton
\* x, none of them being dropped.
C12_Rendering ==
    (Accepted /\ ppc \in {"reparse", "done"}) =>
        /\ text[1].kind = "Ok"
        /\ text[1].val = RenderingOfC12(parsed[1].val)

\* The parsed locale has a language, script or region and nothing else.
OnlyLanguageScriptRegion(self) ==
    /\ self.extlangs = None /\ self.variants = None /\ self.extensions = None
    /\ self.privateuse = <<>>

IsLower(s) == s = to_ascii_lowercase(s)
IsUpper(s) == s = to_ascii_uppercase(s)
IsTitle(s) == s # <<>> /\ s = make_first_ascii_uppercase(to_ascii_lowercase(s))

\* C13: parsing is case-insensitive on language, script and region: a tag
\* made of these subtags and the same tag in upper case or in lower case
\* parse to equal locales, with the language stored in lower case, the script
\* in title case and the region in upper case; en-latn-us and EN-LATN-US
\* both give language en, script Latn, region US.
C13_CaseInsensitive ==
    (Accepted /\ OnlyLanguageScriptRegion(parsed[1].val)) =>
        /\ SameResult(parse_language_tag(to_ascii_uppercase(t)), parsed[1])
        /\ SameResult(parse_language_tag(to_ascii_lowercase(t)), parsed[1])
        /\ parsed[1].val.language # None => IsLower(parsed[1].val.language[1])
        /\ parsed[1].val.script # None => IsTitle(parsed[1].val.script[1])
        /\ parsed[1].val.region # None => IsUpper(parsed[1].val.region[1])
        /\ t = <<"e", "n", "-", "l", "a", "t", "n", "-", "u", "s">> =>
              /\ parsed[1].val.language = Some(<<"e", "n">>)
              /\ parsed[1].val.script = Some(<<"L", "a", "t", "n">>)
              /\ parsed[1].val.region = Some(<<"U", "S">>)
              /\ SameResult(parse_language_tag(<<"E", "N", "-", "L", "A", "T", "N", "-", "U", "S">>), parsed[1])

\* The tag s has a one-character subtag that occurs a second time before
\* any private-use singleton, and the subtags before the second occurrence
\* make a tag the parser accepts.
RepeatedSingleton(s) ==
    LET subs == SubtagsOf(s) IN
    \E i, j \in 1..Len(subs) :
        /\ i < j /\ Len(subs[i]) = 1 /\ subs[j] = subs[i]
        /\ \A k \in 1..j : to_ascii_lowercase(subs[k]) # <<"x">>
        /\ parse_language_tag(PrefixTag(s, j - 1)).kind = "Ok"

\* C16: parse_language_tag returns Err(DuplicateExtension) for every tag in
\* which the same extension singleton occurs twice before a private-use
\* section (two u singletons, say), and so never stores two extensions
\* under the same name.
C16_DuplicateExtensionRejected ==
    (ppc # "parse" /\ is_ascii(t) /\ RepeatedSingleton(t)) =>
        SameResult(parsed[1], Err("DuplicateExtension"))

\* The tag s has a subtag longer than 8 characters, and the subtags before
\* the first such subtag make a tag the parser accepts.
LongSubtagAfterAccepted(s) ==
    LET subs == SubtagsOf(s) IN
    \E j \in 1..Len(subs) :
        /\ Len(subs[j]) > 8
        /\ \A k \in 1..(j - 1) : Len(subs[k]) <= 8
        /\ parse_language_tag(PrefixTag(s, j - 1)).kind = "Ok"

\* C17 as stated: parse_language_tag returns Err(SubtagTooLong) for every
\* input in which some subtag is longer than 8 characters and all subtags
\* before it were accepted, whatever the grammar position of that subtag.
C17_LongSubtagRejected ==
    (ppc # "parse" /\ LongSubtagAfterAccepted(t)) =>
        SameResult(parsed[1], Err("SubtagTooLong"))

\* C17 amended: parse_language_tag returns Err(SubtagTooLong) for every
\* ASCII input in which some subtag is longer than 8 characters and all
\* subtags before it were accepted, whatever the grammar position of that
\* subtag (language, variant, extension key or value, private use); an
\* input with a non-ASCII character fails with InvalidLanguage before any
\* subtag is looked at; verybroken-tag fails with SubtagTooLong.
C17_LongSubtagRejectedInAscii ==
    /\ (ppc # "parse" /\ is_ascii(t) /\ LongSubtagAfterAccepted(t)) =>
          SameResult(parsed[1], Err("SubtagTooLong"))
    /\ (ppc # "parse" /\ ~is_ascii(t)) => SameResult(parsed[1], Err("InvalidLanguage"))
    /\ SameResult(parse_language_tag(<<"v", "e", "r", "y", "b", "r", "o", "k", "e", "n", "-", "t", "a", "g">>), Err("SubtagTooLong"))

\* The long subtag stands where the value of an extension key is expected.
C17_Witness ==
    /\ t = <<"u", "-", "h", "c", "-", "v", "e", "r", "y", "b", "r", "o", "k", "e", "n">>
    /\ ppc = "print"
    /\ parsed[1].kind = "Err" /\ parsed[1].val = "SubtagTooLong"

\* ------------------------------------------------------------------------
\* Locale::new with options (src/src/locale/options.rs)
\* ------------------------------------------------------------------------
\* TinyStr4::new(text): 1 to 4 ASCII characters, stored as they are.
TinyStr4_new(s) ==
    IF Len(s) \notin 1..4 THEN Err("InvalidSize")
    ELSE IF ~is_ascii(s) THEN Err("NonAscii")
    ELSE Ok(s)

\* Result::ok()
ok(r) == IF r.kind = "Ok" THEN Some(r.val) ELSE None

\* One turn of `for (key, value) in opts` in apply_options.
apply_option(loc, key, value) ==
    IF key = <<"l", "a", "n", "g", "u", "a", "g", "e">> THEN [loc EXCEPT !.language = ok(TinyStr4_new(value))]
    ELSE IF key = <<"s", "c", "r", "i", "p", "t">> THEN [loc EXCEPT !.script = ok(TinyStr4_new(value))]
    ELSE IF key = <<"r", "e", "g", "i", "o", "n">> THEN [loc EXCEPT !.region = ok(TinyStr4_new(value))]
    ELSE Locale_add_extension(loc, <<"u", "n", "i", "c", "o", "d", "e">>, key, value)

\* pub fn apply_options(loc, opts): the options in the order of the BTreeMap.
RECURSIVE apply_options_in(_, _, _)
apply_options_in(loc, keys, opts) ==
    IF keys = <<>> THEN loc
    ELSE apply_options_in(apply_option(loc, Head(keys), opts[Head(keys)]), Tail(keys), opts)

apply_options(loc, opts) == apply_options_in(loc, map_keys(opts), opts)

\* Locale::new(loc_str, opts)
Locale_new(loc_str, opts) ==
    LET r == parse_language_tag(loc_str) IN
    IF r.kind # "Ok" THEN r
    ELSE IF opts # None THEN Ok(apply_options(r.val, opts[1]))
    ELSE r

\* ------------------------------------------------------------------------
\* Locale::add_likely_subtags (src/src/locale/likely_subtags.rs)
\* ------------------------------------------------------------------------
\* str_to_le(s): the bytes of s packed into a u32, !0 when s is longer than
\* four bytes; the packing is one-to-one, so the string stands for its word
\* and "" for 0.
str_to_le(s) == IF Len(s) > 4 THEN <<"!0">> ELSE s

SCRIPT_ZZZZ_TAG == <<"Z", "z", "z", "z">>
REGION_ZZ_TAG == <<"Z", "Z">>

\* The tables of tables.rs, each a map from its key to "lang-Scrp-REG":
\* the entries that the tests add_likely and
\* add_likely_consistent_with_shortcuts pin down.
SCRIPT_REGION == (<<<<"C", "C">>, <<"A", "r", "a", "b">>>> :> <<"m", "s", "-", "A", "r", "a", "b", "-", "C", "C">>)
LANG_REGION == (<<<<"I", "Q">>, <<"a", "z">>>> :> <<"a", "z", "-", "A", "r", "a", "b", "-", "I", "Q">>)
LANG_SCRIPT ==
    (<<<<"S", "h", "a", "w">>, <<"e", "n">>>> :> <<"e", "n", "-", "S", "h", "a", "w", "-", "G", "B">>) @@ (<<<<"A", "d", "l", "m">>, <<>>>> :> <<"f", "f", "-", "A", "d", "l", "m", "-", "G", "N">>)
LANG_ONLY == (<<"e", "n">> :> <<"e", "n", "-", "L", "a", "t", "n", "-", "U", "S">>) @@ (<<"a", "z">> :> <<"a", "z", "-", "L", "a", "t", "n", "-", "A", "Z">>)

\* lookup_binary(key, data)
lookup_binary(key, data) == IF key \in DOMAIN data THEN Some(data[key]) ELSE None

\* apply_lookup(locale, lookup): fills the fields that are empty.
apply_lookup(loc, lookup) ==
    LET parts == split(lookup, {"-"})
        l1 == IF Locale_get_language(loc) = <<>>
              THEN Locale_set_language(loc, parts[1]).locale ELSE loc
        l2 == IF Locale_get_script(l1) = <<>>
              THEN Locale_set_script(l1, parts[2]).locale ELSE l1
    IN  IF Locale_get_region(l2) = <<>>
        THEN Locale_set_region(l2, parts[3]).locale ELSE l2

\* first_lookup trying the language-only table before the others.
first_lookup_language_only_first(lang, script, region) ==
    LET tries ==
          lookup_binary(lang, LANG_ONLY)
          \o (IF lang = <<>> THEN lookup_binary(<<region, script>>, SCRIPT_REGION) ELSE <<>>)
          \o lookup_binary(<<region, lang>>, LANG_REGION)
          \o lookup_binary(<<script, lang>>, LANG_SCRIPT)
          \o lookup_binary(<<script, <<>>>>, LANG_SCRIPT)
    IN  IF tries = <<>> THEN None ELSE Some(tries[1])

\* The first lookup that succeeds among the keys tried in turn: <<>> if none.
first_lookup(lang, script, region) ==
    LET tries ==
          (IF lang = <<>> THEN lookup_binary(<<region, script>>, SCRIPT_REGION) ELSE <<>>)
          \o lookup_binary(<<region, lang>>, LANG_REGION)
          \o lookup_binary(<<script, lang>>, LANG_SCRIPT)
          \o lookup_binary(lang, LANG_ONLY)
          \o lookup_binary(<<script, <<>>>>, LANG_SCRIPT)
    IN  IF tries = <<>> THEN None ELSE Some(tries[1])

\* Locale::add_likely_subtags(&mut self) -> bool
Locale_add_likely_subtags(self) ==
    LET lang == str_to_le(Locale_get_language(self))
        script == str_to_le(Locale_get_script(self))
        region == str_to_le(Locale_get_region(self))
        s1 == IF script = SCRIPT_ZZZZ_TAG THEN Locale_set_script(self, <<>>).locale ELSE self
        s2 == IF region = REGION_ZZ_TAG THEN Locale_set_region(s1, <<>>).locale ELSE s1
        lookup == first_lookup(lang, script, region)
    IN  IF lookup # None
        THEN [res |-> TRUE, locale |-> apply_lookup(s2, lookup[1])]
        ELSE [res |-> FALSE, locale |-> s2]

\* ------------------------------------------------------------------------
\* LocaleSpec: one Locale object and the public operations called on it
\* ------------------------------------------------------------------------
MaxOps == 2

\* The arguments of Locale::new.
NewTags == { <<>>, <<"e", "n", "-", "L", "a", "t", "n", "-", "U", "S">>, <<"x", "x", "-", "Z", "z", "z", "z", "-", "Z", "Z">>, <<"e", "n", "-", "m", "a", "c", "o", "s">> }
NewOptions ==
    { None,
      Some(<<"l", "a", "n", "g", "u", "a", "g", "e">> :> <<"E", "N">>),
      Some(<<"h", "o", "u", "r", "-", "c", "y", "c", "l", "e">> :> <<"h", "1", "2">>) }

\* The strings the caller passes to the setters and to the variant and
\* extension methods.
SetterValues ==
    { <<>>, <<"u", "n", "d">>, <<"d", "e">>, <<"D", "E">>, <<"d">>, <<"l", "a", "t", "n">>, <<"l", "4", "t", "n">>, <<"g", "b">>, <<"4", "1", "9">> }
VariantValues == { <<"m", "a", "c", "o", "s">>, <<"v">> }
ExtensionValues == { <<<<"u", "n", "i", "c", "o", "d", "e">>, <<"c", "a", "l", "e", "n", "d", "a", "r">>, <<"b", "u", "d", "d", "h", "i", "s", "t">>>> }

\* What `last` records of a call.
Call(op, arg, res) == [op |-> op, arg |-> arg, res |-> res]

LocaleInit ==
    /\ locale \in {Locale_new(a[1], a[2]).val :
                      a \in {x \in NewTags \X NewOptions : Locale_new(x[1], x[2]).kind = "Ok"}}
    /\ last = Call("new", <<>>, "Ok")
    /\ ops = 0
    /\ requested = <<>> /\ available = <<>> /\ default = <<>> /\ strategy = "Filtering"
    /\ av_map = {} /\ supported = <<>> /\ found = <<>> /\ ri = 0 /\ req = EmptyLoc
    /\ pc = "idle"
    /\ ParserIdle /\ MaximizeIdle /\ AcceptIdle /\ ExtraIdle

\* The frame of every operation of LocaleSpec.
Called == ops < MaxOps /\ ops' = ops + 1 /\ UNCHANGED <<nvars, pvars, mvars, avars, evars>>

\* loc.set_language(value)
SetLanguage ==
    \E value \in SetterValues :
        LET o == Locale_set_language(locale, value) IN
        /\ locale' = o.locale
        /\ last' = Call("set_language", value, o.res.kind)
        /\ Called

\* loc.set_script(value)
SetScript ==
    \E value \in SetterValues :
        LET o == Locale_set_script(locale, value) IN
        /\ locale' = o.locale
        /\ last' = Call("set_script", value, o.res.kind)
        /\ Called

\* loc.set_region(value)
SetRegion ==
    \E value \in SetterValues :
        LET o == Locale_set_region(locale, value) IN
        /\ locale' = o.locale
        /\ last' = Call("set_region", value, o.res.kind)
        /\ Called

\* loc.add_variant(value)
AddVariant ==
    \E value \in VariantValues :
        /\ locale' = Locale_add_variant(locale, value)
        /\ last' = Call("add_variant", value, "Ok")
        /\ Called

\* loc.remove_variant(value)
RemoveVariant ==
    \E value \in VariantValues :
        /\ locale' = Locale_remove_variant(locale, value)
        /\ last' = Call("remove_variant", value, "Ok")
        /\ Called

\* loc.clear_variants()
ClearVariants ==
    /\ locale' = Locale_clear_variants(locale)
    /\ last' = Call("clear_variants", <<>>, "Ok")
    /\ Called

\* loc.add_extension(ext_name, key, value)
AddExtension ==
    \E e \in ExtensionValues :
        /\ locale' = Locale_add_extension(locale, e[1], e[2], e[3])
        /\ last' = Call("add_extension", e, "Ok")
        /\ Called

\* loc.add_likely_subtags()
AddLikelySubtags ==
    LET o == Locale_add_likely_subtags(locale) IN
    /\ locale' = o.locale
    /\ last' = Call("add_likely_subtags", <<>>, IF o.res THEN "true" ELSE "false")
    /\ Called

LocaleNext ==
    \/ SetLanguage
    \/ SetScript
    \/ SetRegion
    \/ AddVariant
    \/ RemoveVariant
    \/ ClearVariants
    \/ AddExtension
    \/ AddLikelySubtags

LocaleSpec == LocaleInit /\ [][LocaleNext]_vars

\* ------------------------------------------------------------------------
\* Properties of the Locale object
\* ------------------------------------------------------------------------
all_alphanumeric(s) == \A i \in 1..Len(s) : is_ascii_alphabetic(s[i]) \/ is_ascii_digit(s[i])

\* The shapes of the data model.
LanguageShape(s) == Len(s) \in 2..3 /\ all_alphabetic(s)
ScriptShape(s) == Len(s) = 4 /\ all_alphabetic(s)
RegionShape(s) == (Len(s) = 2 /\ all_alphabetic(s)) \/ (Len(s) = 3 /\ all_digit(s))
VariantShape(s) == Len(s) \in 4..8 /\ all_alphanumeric(s)

\* C14: after any sequence of public operations (Locale::new with or without
\* options, set_language, set_script, set_region, add_variant,
\* remove_variant, clear_variants, add_extension) the language, if present,
\* is 2-3 lowercase ASCII letters, the script, if present, is 4 letters in
\* title case, the region, if present, is 2 uppercase letters or 3 digits,
\* and every variant is 4-8 ASCII alphanumeric characters.
C14_DataModelInvariants ==
    last.op # "add_likely_subtags" =>
        /\ locale.language # None =>
              (LanguageShape(locale.language[1]) /\ IsLower(locale.language[1]))
        /\ locale.script # None =>
              (ScriptShape(locale.script[1]) /\ IsTitle(locale.script[1]))
        /\ locale.region # None =>
              (RegionShape(locale.region[1]) /\ IsUpper(locale.region[1]))
        /\ locale.variants # None =>
              \A i \in 1..Len(locale.variants[1]) : VariantShape(locale.variants[1][i])

\* C15: set_language, set_script and set_region re-validate their argument:
\* with a value that fails validation they return an error and leave every
\* field unchanged; with a valid value they change only the named field and
\* store it in canonical case; with the empty string (or und for
\* set_language) they clear only that field.
C15_SettersRevalidate ==
    [][ /\ last'.op = "set_language" =>
             LET v == last'.arg IN
             IF v = <<>> \/ v = <<"u", "n", "d">>
             THEN last'.res = "Ok" /\ locale' = [locale EXCEPT !.language = None]
             ELSE IF LanguageShape(v)
             THEN /\ last'.res = "Ok"
                  /\ locale' = [locale EXCEPT !.language = locale'.language]
                  /\ locale'.language # None
                  /\ IsLower(locale'.language[1])
                  /\ to_ascii_lowercase(v) = locale'.language[1]
             ELSE last'.res = "Err" /\ locale' = locale
        /\ last'.op = "set_script" =>
             LET v == last'.arg IN
             IF v = <<>>
             THEN last'.res = "Ok" /\ locale' = [locale EXCEPT !.script = None]
             ELSE IF ScriptShape(v)
             THEN /\ last'.res = "Ok"
                  /\ locale' = [locale EXCEPT !.script = locale'.script]
                  /\ locale'.script # None
                  /\ IsTitle(locale'.script[1])
                  /\ to_ascii_lowercase(v) = to_ascii_lowercase(locale'.script[1])
             ELSE last'.res = "Err" /\ locale' = locale
        /\ last'.op = "set_region" =>
             LET v == last'.arg IN
             IF v = <<>>
             THEN last'.res = "Ok" /\ locale' = [locale EXCEPT !.region = None]
             ELSE IF RegionShape(v)
             THEN /\ last'.res = "Ok"
                  /\ locale' = [locale EXCEPT !.region = locale'.region]
                  /\ locale'.region # None
                  /\ IsUpper(locale'.region[1])
                  /\ to_ascii_uppercase(v) = locale'.region[1]
             ELSE last'.res = "Err" /\ locale' = locale ]_vars

\* set_language has returned an error for the one-letter value d and the
\* locale still has its language, script and region.
C15_Witness ==
    /\ last.op = "set_language" /\ last.res = "Err" /\ last.arg = <<"d">>
    /\ locale.language = Some(<<"e", "n">>)
    /\ locale.script = Some(<<"L", "a", "t", "n">>)
    /\ locale.region = Some(<<"U", "S">>)

\* C19: when no lookup step of add_likely_subtags matches (it returns
\* false), the locale is left unchanged: its language, script, region,
\* variants and extensions are those it had before the call, also when it
\* carried the placeholder script Zzzz or region ZZ.
C19_UnmodifiedLeavesLocale ==
    [][ (last'.op = "add_likely_subtags" /\ last'.res = "false") => locale' = locale ]_vars

\* ------------------------------------------------------------------------
\* MaximizeSpec: LocaleExpander::maximize called again on its own result
\* ------------------------------------------------------------------------
MaxCalls == 2

\* The identifiers handed to the expander.
MaximizeInputs ==
    { Loc(l, s, r, <<>>) :
        l \in {Absent, "en", "fr", "sr", "az", "zh", "de", "cs", "ru", "xx"},
        s \in {Absent, "Latn"},
        r \in {Absent, "US", "IR", "RU", "DE"} }

MaximizeInit ==
    /\ mx \in MaximizeInputs
    /\ mstatus = <<>>
    /\ requested = <<>> /\ available = <<>> /\ default = <<>> /\ strategy = "Filtering"
    /\ av_map = {} /\ supported = <<>> /\ found = <<>> /\ ri = 0 /\ req = EmptyLoc
    /\ pc = "idle"
    /\ ParserIdle /\ LocaleIdle /\ AcceptIdle /\ ExtraIdle

\* let status = expander.maximize(&mut input)
Maximize ==
    /\ Len(mstatus) < MaxCalls
    /\ LET res == maximize(mx) IN
       /\ mx' = res.loc
       /\ mstatus' = Append(mstatus, IF res.modified THEN "Modified" ELSE "Unmodified")
    /\ UNCHANGED <<nvars, pvars, lvars, avars, evars>>

MaximizeNext == Maximize

MaximizeSpec == MaximizeInit /\ [][MaximizeNext]_vars

\* C18: idempotence of maximize: for every identifier x, maximizing the
\* result of maximize(x) leaves it unchanged and the second call reports
\* Unmodified.
C18_MaximizeIdempotent ==
    [][ Len(mstatus) >= 1 => (mx' = mx /\ mstatus'[Len(mstatus')] = "Unmodified") ]_vars

\* ------------------------------------------------------------------------
\* AcceptSpec: accepted_languages::parse (src/src/accepted_languages.rs)
\* ------------------------------------------------------------------------
MaxHeader == 5

\* char::is_whitespace for the characters of the model.
Whitespace == {" ", "\t"}

\* str::trim(): without the leading and the trailing whitespace.
RECURSIVE trim_start(_)
trim_start(s) == IF s # <<>> /\ Head(s) \in Whitespace THEN trim_start(Tail(s)) ELSE s
RECURSIVE trim_end(_)
trim_end(s) ==
    IF s # <<>> /\ s[Len(s)] \in Whitespace THEN trim_end(SubSeq(s, 1, Len(s) - 1)) ELSE s
trim(s) == trim_end(trim_start(s))

\* .filter(|t| !t.is_empty())
RECURSIVE filter_not_empty(_)
filter_not_empty(list) ==
    IF list = <<>> THEN <<>>
    ELSE (IF Head(list) # <<>> THEN <<Head(list)>> ELSE <<>>) \o filter_not_empty(Tail(list))

\* parse that takes the first ;-piece of the piece as it is, without trim().
accepted_languages_parse_untrimmed(s) ==
    LET pieces == split(s, {","})
        mapped == [i \in 1..Len(pieces) |-> split(pieces[i], {";"})[1]]
    IN  filter_not_empty(mapped)

\* pub fn parse(s: &str) -> Vec<&str>
accepted_languages_parse(s) ==
    LET pieces == split(s, {","})
        mapped == [i \in 1..Len(pieces) |-> split(trim(pieces[i]), {";"})[1]]
    IN  filter_not_empty(mapped)

\* The characters the header values of the model are made of.
HeaderChars == {"a", ",", ";", " "}

\* The header of the test of the accepted languages.
ExampleHeader == <<"d", "e", "-", "A", "T", ";", "q", "=", "0", ".", "9", ",", "d", "e", "-", "D", "E", ";", "q", "=", "0", ".", "8", ",", "d", "e", ";", "q", "=", "0", ".", "7", ",", "e", "n", "-", "U", "S", ";", "q", "=", "0", ".", "5">>

AcceptInit ==
    /\ header \in SeqsUpTo(HeaderChars, MaxHeader) \cup {ExampleHeader}
    /\ accepted = <<>>
    /\ requested = <<>> /\ available = <<>> /\ default = <<>> /\ strategy = "Filtering"
    /\ av_map = {} /\ supported = <<>> /\ found = <<>> /\ ri = 0 /\ req = EmptyLoc
    /\ pc = "idle"
    /\ ParserIdle /\ LocaleIdle /\ MaximizeIdle /\ ExtraIdle

\* let requested = parse_accepted_languages(header)
ParseAccepted ==
    /\ accepted = <<>>
    /\ accepted' = <<accepted_languages_parse(header)>>
    /\ UNCHANGED header
    /\ UNCHANGED <<nvars, pvars, lvars, mvars, evars>>

AcceptNext == ParseAccepted

AcceptSpec == AcceptInit /\ [][AcceptNext]_vars

\* The positions of the commas of s, with 0 before and Len(s) + 1 after.
CommaAt(s) == {0, Len(s) + 1} \cup {i \in 1..Len(s) : s[i] = ","}

\* The comma-separated pieces of s as pairs <<a, b>>: the piece is s[a..b].
PieceBounds(s) ==
    {<<a + 1, b - 1>> : a, b \in CommaAt(s)} \cap
    {p \in (1..(Len(s) + 1)) \X (0..Len(s)) :
        /\ p[1] <= p[2] + 1
        /\ \A i \in p[1]..p[2] : s[i] # ","}

\* What C20 says a piece s[a..b] contributes: the part of the piece from its
\* first character that is not whitespace up to, and without, the first ;
\* after it, or up to its last character that is not whitespace.
EntryOf(s, a, b) ==
    LET inner == {i \in a..b : s[i] \notin Whitespace} IN
    IF inner = {} THEN <<>>
    ELSE LET lo == CHOOSE i \in inner : \A j \in inner : i <= j
             hi == CHOOSE i \in inner : \A j \in inner : j <= i
             semis == {i \in lo..hi : s[i] = ";"}
             end == IF semis = {} THEN hi
                    ELSE (CHOOSE i \in semis : \A j \in semis : i <= j) - 1
         IN  SubSeq(s, lo, end)

\* The entries of the pieces that are not empty, as <<start of piece, entry>>.
EntriesOf(s) ==
    {<<p[1], EntryOf(s, p[1], p[2])>> : p \in {q \in PieceBounds(s) : EntryOf(s, q[1], q[2]) # <<>>}}

\* C20: parse_accepted_languages(s) returns, in input order, for each
\* comma-separated piece of s the substring before the first ; of the
\* whitespace-trimmed piece, omitting the pieces for which that substring is
\* empty; no entry holds , or ; and there are at most as many entries as
\* pieces; the header of the test gives [de-AT, de-DE, de, en-US].
C20_AcceptedLanguages ==
    accepted # <<>> =>
        LET list == accepted[1]
            entries == EntriesOf(header)
        IN
        /\ Len(list) = Cardinality(entries)
        /\ \A e \in entries :
              list[Cardinality({f \in entries : f[1] <= e[1]})] = e[2]
        /\ \A i \in 1..Len(list) : \A k \in 1..Len(list[i]) : list[i][k] \notin {",", ";"}
        /\ Len(list) <= Cardinality(PieceBounds(header))
        /\ Cardinality(PieceBounds(header)) = Cardinality(CommaAt(header)) - 1
        /\ header = ExampleHeader => list = <<<<"d", "e", "-", "A", "T">>, <<"d", "e", "-", "D", "E">>, <<"d", "e">>, <<"e", "n", "-", "U", "S">>>>

\* A piece with leading whitespace and a weight, and a piece that is dropped.
C20_Witness ==
    /\ header = <<" ", "a", ";", "a", ",">>
    /\ accepted = << <<<<"a">>>> >>

\* ---------------------------------------------------------------------
\* src/src/locale/tinystr.rs: TinyStr4 and TinyStr8.
\*
\* A u32 / u64 is the sequence of its four / eight bytes, the least
\* significant first; memory is a sequence of bytes in address order, and a
\* &str is the sequence of its UTF-8 bytes.
\* ---------------------------------------------------------------------

\* A sequence given by its elements, as a tuple.
Tuple(f) == f \o <<>>

Reverse(s) == Tuple([i \in 1..Len(s) |-> s[Len(s) + 1 - i]])

\* [b; n]
Splat(b, n) == Tuple([i \in 1..n |-> b])

Bit(b, i) == (b \div (2 ^ i)) % 2

\* & | ! on one byte
u8_and(a, b) ==
    Bit(a, 0) * Bit(b, 0) + 2 * Bit(a, 1) * Bit(b, 1) + 4 * Bit(a, 2) * Bit(b, 2)
    + 8 * Bit(a, 3) * Bit(b, 3) + 16 * Bit(a, 4) * Bit(b, 4) + 32 * Bit(a, 5) * Bit(b, 5)
    + 64 * Bit(a, 6) * Bit(b, 6) + 128 * Bit(a, 7) * Bit(b, 7)
u8_or(a, b) == a + b - u8_and(a, b)
u8_not(a) == 255 - a

\* & | ! on a word
BitAnd(x, y) == Tuple([i \in 1..Len(x) |-> u8_and(x[i], y[i])])
BitOr(x, y) == Tuple([i \in 1..Len(x) |-> u8_or(x[i], y[i])])
BitNot(x) == Tuple([i \in 1..Len(x) |-> u8_not(x[i])])

\* The carry that x + y brings into byte i (into the byte past the word when
\* i = Len(x) + 1), and the borrow that x - y takes from byte i.
RECURSIVE carry(_, _, _)
carry(x, y, i) == IF i = 1 THEN 0 ELSE (x[i - 1] + y[i - 1] + carry(x, y, i - 1)) \div 256

RECURSIVE borrow(_, _, _)
borrow(x, y, i) == IF i = 1 THEN 0 ELSE IF x[i - 1] < y[i - 1] + borrow(x, y, i - 1) THEN 1 ELSE 0

\* x + y and x - y where they do not overflow the word (the only case the
\* methods below meet: see NoOverflow), reduced modulo the word otherwise.
wrapping_add(x, y) == Tuple([i \in 1..Len(x) |-> (x[i] + y[i] + carry(x, y, i)) % 256])
wrapping_sub(x, y) == Tuple([i \in 1..Len(x) |-> (256 + x[i] - y[i] - borrow(x, y, i)) % 256])

\* x >> n
shr(x, n) ==
    LET q == n \div 8
        r == n % 8
        at(i) == IF i <= Len(x) THEN x[i] ELSE 0
    IN  Tuple([i \in 1..Len(x) |-> (at(i + q) \div (2 ^ r)) + (at(i + q + 1) % (2 ^ r)) * (2 ^ (8 - r))])

\* u32::to_le / u64::to_le: the identity on a little-endian target, a swap of
\* the bytes on a big-endian one.
to_le(x) == IF endian = "little" THEN x ELSE Reverse(x)

\* The bytes of a word in memory, and the word that bytes in memory are.
to_ne_bytes(x) == IF endian = "little" THEN x ELSE Reverse(x)
from_ne_bytes(m) == IF endian = "little" THEN m ELSE Reverse(m)

\* copy_nonoverlapping(text.as_ptr(), &mut word as *mut u8, len): word afterwards
copy_nonoverlapping(src, word, count) ==
    from_ne_bytes(Tuple([i \in 1..Len(word) |-> IF i <= count THEN src[i] ELSE to_ne_bytes(word)[i]]))

RECURSIVE u8_bit_length(_)
u8_bit_length(b) == IF b = 0 THEN 0 ELSE 1 + u8_bit_length(b \div 2)

RECURSIVE leading_zeros(_)
leading_zeros(x) ==
    IF Len(x) = 0 THEN 0
    ELSE IF x[Len(x)] = 0 THEN 8 + leading_zeros(SubSeq(x, 1, Len(x) - 1))
    ELSE 8 - u8_bit_length(x[Len(x)])

\* core::slice::from_raw_parts(&self.0 as *const u8, len)
from_raw_parts(word, len) == SubSeq(to_ne_bytes(word), 1, len)

\* TinyStr8::new without the test for an embedded NUL.
TinyStr8_new_without_null_check(txt) ==
    LET len == Len(txt)
    IN  IF len < 1 \/ len > 8 THEN Err("InvalidSize")
        ELSE LET word == copy_nonoverlapping(txt, Splat(0, 8), len)
                 mask == to_le(shr(Splat(\H80, 8), 8 * (8 - len)))
             IN  IF BitAnd(word, mask) # Splat(0, 8) THEN Err("NonAscii")
                 ELSE Ok(word)

TinyStr8_new(txt) ==
    LET len == Len(txt)
    IN  IF len < 1 \/ len > 8 THEN Err("InvalidSize")
        ELSE LET word == copy_nonoverlapping(txt, Splat(0, 8), len)
                 mask == to_le(shr(Splat(\H80, 8), 8 * (8 - len)))
             IN  IF BitAnd(word, mask) # Splat(0, 8) THEN Err("NonAscii")
                 ELSE IF BitAnd(wrapping_sub(mask, word), mask) # Splat(0, 8) THEN Err("InvalidNull")
                 ELSE Ok(word)

TinyStr8_to_ascii_uppercase(word) ==
    BitAnd(word, BitNot(shr(BitAnd(BitAnd(wrapping_add(word, Splat(\H1f, 8)),
                                          BitNot(wrapping_add(word, Splat(\H05, 8)))),
                                   Splat(\H80, 8)), 2)))

TinyStr8_to_ascii_lowercase(word) ==
    BitOr(word, shr(BitAnd(BitAnd(wrapping_add(word, Splat(\H3f, 8)),
                                  BitNot(wrapping_add(word, Splat(\H25, 8)))),
                           Splat(\H80, 8)), 2))

TinyStr8_is_all_ascii_alpha(word) ==
    LET mask == BitAnd(wrapping_add(word, Splat(\H7f, 8)), Splat(\H80, 8))
        lower == BitOr(word, Splat(\H20, 8))
    IN  BitAnd(BitOr(BitNot(wrapping_add(lower, Splat(\H1f, 8))),
                     wrapping_add(lower, Splat(\H05, 8))), mask) = Splat(0, 8)

TinyStr8_deref(self) ==
    LET word == to_le(self)
        len == 8 - leading_zeros(word) \div 8
    IN  from_raw_parts(self, len)

make_4byte_str(txt, len, mask_ne) ==
    LET mask == to_le(mask_ne)
        word == copy_nonoverlapping(txt, Splat(0, 4), len)
    IN  IF BitAnd(word, mask) # Splat(0, 4) THEN Err("NonAscii")
        ELSE IF BitAnd(wrapping_sub(mask, word), mask) # Splat(0, 4) THEN Err("InvalidNull")
        ELSE Ok(word)

\* TinyStr4::new on the bytes of its argument, giving the packed word.
TinyStr4_new_packed(txt) ==
    CASE Len(txt) = 1 -> make_4byte_str(txt, 1, <<\H80, 0, 0, 0>>)
      [] Len(txt) = 2 -> make_4byte_str(txt, 2, <<\H80, \H80, 0, 0>>)
      [] Len(txt) = 3 -> make_4byte_str(txt, 3, <<\H80, \H80, \H80, 0>>)
      [] Len(txt) = 4 -> make_4byte_str(txt, 4, <<\H80, \H80, \H80, \H80>>)
      [] OTHER -> Err("InvalidSize")

TinyStr4_to_ascii_uppercase(word) ==
    BitAnd(word, BitNot(shr(BitAnd(BitAnd(wrapping_add(word, Splat(\H1f, 4)),
                                          BitNot(wrapping_add(word, Splat(\H05, 4)))),
                                   Splat(\H80, 4)), 2)))

TinyStr4_to_ascii_lowercase(word) ==
    BitOr(word, shr(BitAnd(BitAnd(wrapping_add(word, Splat(\H3f, 4)),
                                  BitNot(wrapping_add(word, Splat(\H25, 4)))),
                           Splat(\H80, 4)), 2))

\* to_ascii_titlecase on the word as the target holds it, without to_le.
TinyStr4_to_ascii_titlecase_native(self) ==
    LET word == self
        mask == shr(BitAnd(BitAnd(wrapping_add(word, <<\H1f, \H3f, \H3f, \H3f>>),
                                  BitNot(wrapping_add(word, <<\H05, \H25, \H25, \H25>>))),
                           Splat(\H80, 4)), 2)
        result == BitAnd(BitOr(word, mask), BitNot(BitAnd(<<\H20, 0, 0, 0>>, mask)))
    IN  result

TinyStr4_to_ascii_titlecase(self) ==
    LET word == to_le(self)
        mask == shr(BitAnd(BitAnd(wrapping_add(word, <<\H1f, \H3f, \H3f, \H3f>>),
                                  BitNot(wrapping_add(word, <<\H05, \H25, \H25, \H25>>))),
                           Splat(\H80, 4)), 2)
        result == BitAnd(BitOr(word, mask), BitNot(BitAnd(<<\H20, 0, 0, 0>>, mask)))
    IN  to_le(result)

TinyStr4_is_all_ascii_alpha(word) ==
    LET mask == BitAnd(wrapping_add(word, Splat(\H7f, 4)), Splat(\H80, 4))
        lower == BitOr(word, Splat(\H20, 4))
    IN  BitAnd(BitOr(BitNot(wrapping_add(lower, Splat(\H1f, 4))),
                     wrapping_add(lower, Splat(\H05, 4))), mask) = Splat(0, 4)

TinyStr4_deref(self) ==
    LET word == to_le(self)
        len == 4 - leading_zeros(word) \div 8
    IN  from_raw_parts(self, len)

\* ---------------------------------------------------------------------
\* TinySpec: a TinyStr4 or a TinyStr8 is made from a string and its
\* methods are called on it, on a little-endian and on a big-endian target.
\* ---------------------------------------------------------------------

\* Characters a head or a tail of the argument is made of.
MaxChars == 1

\* Characters as their UTF-8 bytes: NUL, '@', 'A', 'Z', '[', '`', 'a', 'z',
\* '{', DEL and U+00E9.
TinyChars ==
    {<<0>>, <<\H40>>, <<\H41>>, <<\H5a>>, <<\H5b>>, <<\H60>>, <<\H61>>,
     <<\H7a>>, <<\H7b>>, <<\H7f>>, <<\Hc3, \Ha9>>}

RECURSIVE Flatten(_)
Flatten(ss) == IF ss = <<>> THEN <<>> ELSE Head(ss) \o Flatten(Tail(ss))

\* Arguments: up to MaxChars characters, then up to seven 'b', then at most
\* one more character.
TinyTexts ==
    {Flatten(head) \o Splat(\H62, k) \o Flatten(tail) :
        head \in SeqsUpTo(TinyChars, MaxChars), k \in 0..7, tail \in SeqsUpTo(TinyChars, 1)}

TinyInit ==
    /\ endian \in {"little", "big"}
    /\ bytes \in TinyTexts
    /\ tiny = <<>>
    /\ tlast = <<>>
    /\ requested = <<>> /\ available = <<>> /\ default = <<>> /\ strategy = "Filtering"
    /\ av_map = {} /\ supported = <<>> /\ found = <<>> /\ ri = 0 /\ req = EmptyLoc /\ pc = "idle"
    /\ ParserIdle /\ LocaleIdle /\ MaximizeIdle /\ AcceptIdle /\ MatchIdle /\ StrategyIdle

TinyFrame == UNCHANGED <<nvars, pvars, lvars, mvars, avars, cvars, svars, endian, bytes>>

New4 ==
    /\ tiny = <<>>
    /\ tiny' = <<[width |-> 4, res |-> TinyStr4_new_packed(bytes)]>>
    /\ UNCHANGED tlast
    /\ TinyFrame

New8 ==
    /\ tiny = <<>>
    /\ tiny' = <<[width |-> 8, res |-> TinyStr8_new(bytes)]>>
    /\ UNCHANGED tlast
    /\ TinyFrame

\* self is a TinyStrN
Is(n) == tiny # <<>> /\ tiny[1].width = n /\ tiny[1].res.kind = "Ok"

Method(n, op, res) ==
    /\ Is(n)
    /\ tlast' = <<Call(op, tiny[1].res.val, res)>>
    /\ UNCHANGED tiny
    /\ TinyFrame

AsStr4 == Is(4) /\ Method(4, "as_str", TinyStr4_deref(tiny[1].res.val))
Uppercase4 == Is(4) /\ Method(4, "to_ascii_uppercase", TinyStr4_to_ascii_uppercase(tiny[1].res.val))
Lowercase4 == Is(4) /\ Method(4, "to_ascii_lowercase", TinyStr4_to_ascii_lowercase(tiny[1].res.val))
Titlecase4 == Is(4) /\ Method(4, "to_ascii_titlecase", TinyStr4_to_ascii_titlecase(tiny[1].res.val))
IsAllAsciiAlpha4 == Is(4) /\ Method(4, "is_all_ascii_alpha", TinyStr4_is_all_ascii_alpha(tiny[1].res.val))

AsStr8 == Is(8) /\ Method(8, "as_str", TinyStr8_deref(tiny[1].res.val))
Uppercase8 == Is(8) /\ Method(8, "to_ascii_uppercase", TinyStr8_to_ascii_uppercase(tiny[1].res.val))
Lowercase8 == Is(8) /\ Method(8, "to_ascii_lowercase", TinyStr8_to_ascii_lowercase(tiny[1].res.val))
IsAllAsciiAlpha8 == Is(8) /\ Method(8, "is_all_ascii_alpha", TinyStr8_is_all_ascii_alpha(tiny[1].res.val))

TinyNext ==
    \/ New4
    \/ New8
    \/ AsStr4
    \/ Uppercase4
    \/ Lowercase4
    \/ Titlecase4
    \/ IsAllAsciiAlpha4
    \/ AsStr8
    \/ Uppercase8
    \/ Lowercase8
    \/ IsAllAsciiAlpha8

TinySpec == TinyInit /\ [][TinyNext]_vars

\* ---------------------------------------------------------------------
\* Properties of TinyStr4 and TinyStr8
\* ---------------------------------------------------------------------

NoError == "-"

\* The error the documentation of new promises for an argument, by its bytes.
NewError(n, txt) ==
    IF Len(txt) < 1 \/ Len(txt) > n THEN "InvalidSize"
    ELSE IF \E i \in 1..Len(txt) : txt[i] >= 128 THEN "NonAscii"
    ELSE IF \E i \in 1..Len(txt) : txt[i] = 0 THEN "InvalidNull"
    ELSE NoError

\* C21: TinyStr4::new / TinyStr8::new return Ok exactly for arguments of 1..4
\* / 1..8 bytes, all of them ASCII and none of them NUL, and otherwise
\* InvalidSize, NonAscii or InvalidNull in this priority; the packed word of
\* an Ok is not zero and as_str gives back the argument, byte for byte.
C21_New ==
    tiny # <<>> =>
        LET n == tiny[1].width
            res == tiny[1].res
            error == NewError(n, bytes)
        IN  /\ res.kind = (IF error = NoError THEN "Ok" ELSE "Err")
            /\ res.kind = "Err" => res.val = error
            /\ res.kind = "Ok" => res.val # Splat(0, n)
            /\ (tlast # <<>> /\ tlast[1].op = "as_str") => tlast[1].res = bytes

\* as_str gave all eight bytes of a TinyStr8 back on a big-endian target.
C21_Witness ==
    /\ endian = "big"
    /\ tiny # <<>> /\ tiny[1].width = 8 /\ tiny[1].res.kind = "Ok"
    /\ tlast # <<>> /\ tlast[1].op = "as_str" /\ tlast[1].res = bytes
    /\ Len(bytes) = 8

\* u8::to_ascii_uppercase, u8::to_ascii_lowercase, u8::is_ascii_alphabetic
upper_byte(b) == IF b \in 97..122 THEN b - 32 ELSE b
lower_byte(b) == IF b \in 65..90 THEN b + 32 ELSE b
alpha_byte(b) == b \in 65..90 \/ b \in 97..122

\* x + y carries from no byte into the next, nor out of the word.
NoCarry(x, y) == \A i \in 1..(Len(x) + 1) : carry(x, y, i) = 0

\* The additions each method makes on the word of self.
Additions(op, word) ==
    LET n == Len(word)
    IN  CASE op = "to_ascii_uppercase" -> {<<word, Splat(31, n)>>, <<word, Splat(5, n)>>}
          [] op = "to_ascii_lowercase" -> {<<word, Splat(63, n)>>, <<word, Splat(37, n)>>}
          [] op = "to_ascii_titlecase" ->
                {<<to_le(word), <<31, 63, 63, 63>>>>, <<to_le(word), <<5, 37, 37, 37>>>>}
          [] op = "is_all_ascii_alpha" ->
                {<<word, Splat(127, n)>>,
                 <<BitOr(word, Splat(32, n)), Splat(31, n)>>,
                 <<BitOr(word, Splat(32, n)), Splat(5, n)>>}
          [] OTHER -> {}

\* C30: on every valid TinyStr4 / TinyStr8 the methods computed on the packed
\* word agree with their definitions byte by byte, and no addition carries
\* from one byte into the next: to_ascii_uppercase changes exactly a-z,
\* to_ascii_lowercase exactly A-Z, to_ascii_titlecase makes the first byte
\* upper case and the others lower case, padding bytes and the length stay,
\* and is_all_ascii_alpha holds exactly when every used byte is a letter.
C30_BytewiseCase ==
    tlast # <<>> =>
        LET op == tlast[1].op
            self == tlast[1].arg
            res == tlast[1].res
            n == Len(self)
            m == to_ne_bytes(self)
            length(w) == Len(IF n = 4 THEN TinyStr4_deref(w) ELSE TinyStr8_deref(w))
        IN  /\ \A a \in Additions(op, self) : NoCarry(a[1], a[2])
            /\ op = "to_ascii_uppercase" =>
                  /\ to_ne_bytes(res) = [i \in 1..n |-> upper_byte(m[i])]
                  /\ length(res) = length(self)
            /\ op = "to_ascii_lowercase" =>
                  /\ to_ne_bytes(res) = [i \in 1..n |-> lower_byte(m[i])]
                  /\ length(res) = length(self)
            /\ op = "to_ascii_titlecase" =>
                  /\ to_ne_bytes(res) = [i \in 1..n |-> IF i = 1 THEN upper_byte(m[i]) ELSE lower_byte(m[i])]
                  /\ length(res) = length(self)
            /\ op = "is_all_ascii_alpha" =>
                  res = (\A i \in 1..Len(bytes) : alpha_byte(m[i]))

\* "zZ" became "Zz" on a big-endian target.
C30_Witness ==
    /\ endian = "big"
    /\ bytes = <<122, 90>>
    /\ tlast # <<>> /\ tlast[1].op = "to_ascii_titlecase"
    /\ to_ne_bytes(tlast[1].res) = <<90, 122, 0, 0>>

\* ---------------------------------------------------------------------
\* MatchSpec: Locale::matches is called on two locales, with every pair of
\* range flags.
\* ---------------------------------------------------------------------

\* Private use subtags of a locale.
MaxPrivateuse == 1

\* Locales as parse_language_tag gives them for tags like "en-Latn-US-macos-x-foo".
MatchLocales ==
    {[Loc(l, s, r, v) EXCEPT !.privateuse = Splat("foo", k)] :
        l \in {Absent, "en", "fr"}, s \in {Absent, "Latn"}, r \in {Absent, "US"},
        v \in {<<>>, <<"macos">>}, k \in 0..MaxPrivateuse}

MatchInit ==
    /\ mself \in MatchLocales
    /\ mother \in MatchLocales
    /\ mres = <<>>
    /\ requested = <<>> /\ available = <<>> /\ default = <<>> /\ strategy = "Filtering"
    /\ av_map = {} /\ supported = <<>> /\ found = <<>> /\ ri = 0 /\ req = EmptyLoc /\ pc = "idle"
    /\ ParserIdle /\ LocaleIdle /\ MaximizeIdle /\ AcceptIdle /\ TinyIdle /\ StrategyIdle

Matches ==
    /\ \E available_range \in BOOLEAN, requested_range \in BOOLEAN :
          mres' = <<[available_range |-> available_range,
                     requested_range |-> requested_range,
                     res |-> matches(mself, mother, available_range, requested_range)]>>
    /\ UNCHANGED <<mself, mother>>
    /\ UNCHANGED <<nvars, pvars, lvars, mvars, avars, tvars, svars>>

MatchNext == Matches

MatchSpec == MatchInit /\ [][MatchNext]_vars

\* A field matches: absent on the available side and available_range, or
\* absent on the requested side and requested_range, or equal on both sides.
FieldMatches(a, r, absent, available_range, requested_range) ==
    \/ a = absent /\ available_range
    \/ r = absent /\ requested_range
    \/ a = r

\* C22: matches returns true exactly when language, script, region and
\* variants (as one list) each match as FieldMatches says; with both flags
\* false this is equality field by field, so every locale matches itself.
C22_Matches ==
    mres # <<>> =>
        LET ar == mres[1].available_range
            rr == mres[1].requested_range
        IN  /\ mres[1].res =
                  ( /\ FieldMatches(mself.language, mother.language, Absent, ar, rr)
                    /\ FieldMatches(mself.script, mother.script, Absent, ar, rr)
                    /\ FieldMatches(mself.region, mother.region, Absent, ar, rr)
                    /\ FieldMatches(mself.variants, mother.variants, <<>>, ar, rr) )
            /\ (mself = mother /\ ~ar /\ ~rr) => mres[1].res

\* The values of parser::Error.
ParseErrors ==
    {"InvalidLanguage", "InvalidSubtag", "SubtagTooLong", "DuplicateExtension",
     "EmptyExtension", "EmptyPrivateUse", "ForbiddenChar", "TooManyExtlangs"}

\* C23: parsing is total: for every ASCII input parse_language_tag returns
\* Ok(locale) or Err(a ParseError) and never panics, also when an extension
\* singleton is followed by an unknown key, by another singleton or by
\* nothing; and to_string of every locale it returned does not panic.
C23_TotalParsing ==
    /\ (parsed # <<>> /\ is_ascii(t)) =>
          \/ parsed[1].kind = "Ok"
          \/ parsed[1].kind = "Err" /\ parsed[1].val \in ParseErrors
    /\ text # <<>> => text[1].kind = "Ok"

\* The parser's state after the subtags subs.
StateAfter(subs) == parse_subtags(ParserState(EmptyLocale, 0, None, None, None), subs)

\* The state in which the last subtag of the tag s is read, and that subtag.
StateBeforeLast(s) == StateAfter(SubSeq(SubtagsOf(s), 1, Len(SubtagsOf(s)) - 1))
LastSubtag(s) == SubtagsOf(s)[Len(SubtagsOf(s))]

\* The last subtag of s stands at the variant position: the subtags before
\* it were accepted up to a region or a variant and no extension is open.
LastAtVariantPosition(s) ==
    /\ is_ascii(s)
    /\ Len(SubtagsOf(s)) >= 2
    /\ StateBeforeLast(s).out = None
    /\ StateBeforeLast(s).current_extension = None
    /\ StateBeforeLast(s).position = 4

VariantsOf(loc) == IF loc.variants = None THEN <<>> ELSE loc.variants[1]

\* parsed is Ok and the last subtag of t was pushed onto the variants.
LastStoredAsVariant ==
    /\ parsed[1].kind = "Ok"
    /\ VariantsOf(parsed[1].val) = Append(VariantsOf(StateBeforeLast(t).locale), LastSubtag(t))

\* C24 as stated: at the variant position a subtag is accepted as a variant
\* exactly when it has at most 8 characters and either has 4 or more and
\* starts with a letter or has 5 or more and starts with a digit; any other
\* subtag there is rejected with InvalidSubtag; accepted variants are kept
\* in input order, duplicates included. (Read for subtags of 2 to 8
\* characters: a single letter is an extension singleton and a longer
\* subtag is cut off by the length check.)
C24_VariantRule ==
    (ppc # "parse" /\ LastAtVariantPosition(t) /\ Len(LastSubtag(t)) \in 2..8) =>
        LET subtag == LastSubtag(t) IN
        IF \/ Len(subtag) >= 4 /\ is_ascii_alphabetic(subtag[1])
           \/ Len(subtag) >= 5 /\ is_ascii_digit(subtag[1])
        THEN LastStoredAsVariant
        ELSE SameResult(parsed[1], Err("InvalidSubtag"))

\* C24 amended: at the variant position a subtag of 2 to 8 characters is
\* accepted as a variant exactly when it has 5 or more characters and starts
\* with a letter or has 4 or more and starts with a digit, and is rejected
\* with InvalidSubtag otherwise; accepted variants are kept in input order,
\* duplicates included. A longer subtag is rejected with SubtagTooLong, an
\* empty one or a single non-letter with InvalidSubtag, and a single letter
\* opens an extension.
C24_VariantRuleOfSource ==
    (ppc # "parse" /\ LastAtVariantPosition(t)) =>
        LET subtag == LastSubtag(t) IN
        CASE Len(subtag) > 8 -> SameResult(parsed[1], Err("SubtagTooLong"))
          [] Len(subtag) = 1 /\ is_ascii_alphabetic(subtag[1]) ->
                /\ parsed[1].kind = "Ok"
                /\ VariantsOf(parsed[1].val) = VariantsOf(StateBeforeLast(t).locale)
          [] Len(subtag) <= 8 /\ Len(subtag) >= 2
             /\ ( \/ Len(subtag) >= 5 /\ is_ascii_alphabetic(subtag[1])
                  \/ Len(subtag) >= 4 /\ is_ascii_digit(subtag[1]) ) -> LastStoredAsVariant
          [] OTHER -> SameResult(parsed[1], Err("InvalidSubtag"))

\* A second, equal variant was stored after the first.
C24_Witness ==
    /\ ppc = "done"
    /\ t = <<"e", "n", "-", "m", "a", "c", "o", "s", "-", "m", "a", "c", "o", "s">>
    /\ parsed[1].kind = "Ok"
    /\ parsed[1].val.variants = Some(<<<<"m", "a", "c", "o", "s">>, <<"m", "a", "c", "o", "s">>>>)

\* Subtags of the shape of a script and of a region.
ScriptShaped(s) == Len(s) = 4 /\ all_alphabetic(s)
RegionShaped(s) == (Len(s) = 2 /\ all_alphabetic(s)) \/ (Len(s) = 3 /\ all_digit(s))

\* C25: the parser reads the subtags in one pass and its grammar position
\* (language, extlangs, script, region, variants) never decreases: with no
\* extension open, a script-shaped subtag is stored as the script while the
\* position is before the script's and a region-shaped one as the region
\* while it is before the region's; once a script or a region is stored it
\* is not overwritten, and a script-shaped subtag after a script or a region,
\* or a region-shaped one after a region, is rejected with InvalidSubtag.
C25_PositionNeverDecreases ==
    (ppc # "parse" /\ is_ascii(t)) =>
        \A j \in 1..Len(SubtagsOf(t)) :
            LET st == StateAfter(SubSeq(SubtagsOf(t), 1, j - 1))
                nx == StateAfter(SubSeq(SubtagsOf(t), 1, j))
                subtag == SubtagsOf(t)[j]
            IN  (st.out = None /\ st.current_extension = None) =>
                    /\ ((ScriptShaped(subtag) /\ st.position >= 3)
                        \/ (RegionShaped(subtag) /\ st.position >= 4)) =>
                            SameResult(parsed[1], Err("InvalidSubtag"))
                    /\ nx.out = None =>
                        /\ nx.position >= st.position
                        /\ st.locale.script # None => nx.locale.script = st.locale.script
                        /\ st.locale.region # None => nx.locale.region = st.locale.region
                        /\ (ScriptShaped(subtag) /\ st.position \in 1..2) =>
                              /\ nx.locale.script = Some(make_first_ascii_uppercase(to_ascii_lowercase(subtag)))
                              /\ nx.position = 3
                        /\ (RegionShaped(subtag) /\ st.position \in 1..3) =>
                              /\ nx.locale.region = Some(to_ascii_uppercase(subtag))
                              /\ nx.position = 4

\* A second script was rejected.
C25_Witness ==
    /\ t = <<"e", "n", "-", "l", "a", "t", "n", "-", "l", "a", "t", "n">>
    /\ parsed # <<>>
    /\ SameResult(parsed[1], Err("InvalidSubtag"))

\* ---------------------------------------------------------------------
\* StrategySpec: a caller negotiates the same requested and available lists
\* three times, with no default, under Filtering, Matching and Lookup, and
\* keeps the three results.
\* ---------------------------------------------------------------------

StrategyInit ==
    /\ requested \in SeqsUpTo(RequestedLocales, MaxRequested)
    /\ available \in SeqsUpTo(AvailableLocales, MaxAvailable)
    /\ default = <<>>
    /\ strategy = "Filtering"
    /\ av_map = av_map_insert_all(available)
    /\ supported = <<>>
    /\ found = <<>>
    /\ ri = 0
    /\ req = EmptyLoc
    /\ pc = "loop"
    /\ results = <<>>
    /\ ParserIdle /\ LocaleIdle /\ MaximizeIdle /\ AcceptIdle /\ TinyIdle /\ MatchIdle

\* The call has returned: its result is kept and the next call starts, on a
\* new HashMap filled from the same available list.
NextStrategy ==
    /\ pc = "done"
    /\ Len(results) < 3
    /\ results' = Append(results, Values(supported))
    /\ IF strategy = "Lookup"
       THEN /\ pc' = "compared"
            /\ UNCHANGED <<strategy, av_map, supported, found, ri, req>>
       ELSE /\ strategy' = (IF strategy = "Filtering" THEN "Matching" ELSE "Lookup")
            /\ av_map' = av_map_insert_all(available)
            /\ supported' = <<>>
            /\ found' = <<>>
            /\ ri' = 0
            /\ req' = EmptyLoc
            /\ pc' = "loop"
    /\ UNCHANGED <<requested, available, default>>
    /\ UNCHANGED <<pvars, lvars, mvars, avars, tvars, cvars>>

StrategyNext ==
    \/ NextRequested
    \/ Stage1
    \/ Stage2
    \/ Stage3
    \/ Stage4
    \/ Stage5
    \/ Stage6
    \/ AppendDefault
    \/ NextStrategy

StrategySpec == StrategyInit /\ [][StrategyNext]_vars

\* C26: for the same requested and available lists and no default the three
\* strategies are nested: the Lookup result is empty exactly when the
\* Matching result is, and otherwise it is the list of the first element of
\* the Matching result; every entry of the Matching result is in the
\* Filtering result.
C26_StrategiesNested ==
    pc = "compared" =>
        LET filtering == results[1]
            matching == results[2]
            lookup == results[3]
        IN  /\ (lookup = <<>>) <=> (matching = <<>>)
            /\ matching # <<>> => lookup = <<matching[1]>>
            /\ \A i \in 1..Len(matching) : \E j \in 1..Len(filtering) : matching[i] = filtering[j]

\* C27: maximizing only fills absent fields: across every call of
\* LocaleExpander::maximize a language, script or region that the input had
\* keeps its value, and the variants are untouched; maximizing a
\* language+region identifier never changes its region.
C27_MaximizeOnlyFills ==
    [][ (mstatus' # mstatus) =>
            /\ mx.language # Absent => mx'.language = mx.language
            /\ mx.script # Absent => mx'.script = mx.script
            /\ mx.region # Absent => mx'.region = mx.region
            /\ mx'.variants = mx.variants ]_vars

\* ---------------------------------------------------------------------
\* LikelySpec: add_likely_subtags is called on locales parsed from tags of
\* a language, a script and a region.
\* ---------------------------------------------------------------------

LikelyTags ==
    {join(<<l>> \o s \o r, <<"-">>) :
        l \in {<<"u", "n", "d">>, <<"e", "n">>, <<"a", "z">>, <<"x", "x">>},
        s \in {<<>>, <<<<"A", "r", "a", "b">>>>, <<<<"A", "d", "l", "m">>>>, <<<<"S", "h", "a", "w">>>>, <<<<"Z", "z", "z", "z">>>>},
        r \in {<<>>, <<<<"C", "C">>>>, <<<<"I", "Q">>>>, <<<<"Z", "Z">>>>}}

LikelyInit ==
    /\ locale \in {parse_language_tag(tag).val : tag \in LikelyTags}
    /\ last = Call("new", <<>>, "Ok")
    /\ ops = 0
    /\ requested = <<>> /\ available = <<>> /\ default = <<>> /\ strategy = "Filtering"
    /\ av_map = {} /\ supported = <<>> /\ found = <<>> /\ ri = 0 /\ req = EmptyLoc
    /\ pc = "idle"
    /\ ParserIdle /\ MaximizeIdle /\ AcceptIdle /\ ExtraIdle

LikelyNext == AddLikelySubtags

LikelySpec == LikelyInit /\ [][LikelyNext]_vars

\* The table entry under key, as a list of none or one.
Entry(table, key) == IF key \in DOMAIN table THEN <<table[key]>> ELSE <<>>

\* The locale loc with the fields it lacks (or holds as Zzzz / ZZ) taken from
\* the entry "lang-Scrp-REG".
FilledFrom(loc, entry) ==
    LET parts == split(entry, {"-"}) IN
    [loc EXCEPT !.language = IF loc.language = None THEN Some(parts[1]) ELSE @,
                !.script = IF @ = None \/ @ = Some(SCRIPT_ZZZZ_TAG) THEN Some(parts[2]) ELSE @,
                !.region = IF @ = None \/ @ = Some(REGION_ZZ_TAG) THEN Some(parts[3]) ELSE @]

\* The entries a call finds for the locale loc, in the order of the claim;
\* script_only tells whether the last, script-only lookup is made for loc.
EntriesInOrder(loc, script_only) ==
    LET lang == Locale_get_language(loc)
        script == Locale_get_script(loc)
        region == Locale_get_region(loc)
    IN  (IF lang = <<>> THEN Entry(SCRIPT_REGION, <<region, script>>) ELSE <<>>)
        \o Entry(LANG_REGION, <<region, lang>>)
        \o Entry(LANG_SCRIPT, <<script, lang>>)
        \o Entry(LANG_ONLY, lang)
        \o (IF script_only THEN Entry(LANG_SCRIPT, <<script, <<>>>>) ELSE <<>>)

\* The call on loc returned res and left the locale after: true and the
\* fields filled from the first entry, or false when there is no entry.
LikelyOutcome(loc, entries, res, after) ==
    /\ res = (IF entries # <<>> THEN "true" ELSE "false")
    /\ entries # <<>> => after = FilledFrom(loc, entries[1])

\* C28 as stated: add_likely_subtags tries (region, script) when the language
\* is absent, then (language, region), (language, script), language only and
\* script only, stopping at the first hit; the script-only lookup is made
\* only for identifiers whose language and region are both absent.
C28_LookupOrder ==
    [][ (ops' # ops /\ last'.op = "add_likely_subtags") =>
            LikelyOutcome(locale,
                          EntriesInOrder(locale, Locale_get_language(locale) = <<>>
                                                 /\ Locale_get_region(locale) = <<>>),
                          last'.res, locale') ]_vars

\* C28 amended: the same order of lookups, the script-only lookup being made
\* for every identifier the four lookups before it found nothing for,
\* whatever its language and region.
C28_LookupOrderOfSource ==
    [][ (ops' # ops /\ last'.op = "add_likely_subtags") =>
            LikelyOutcome(locale, EntriesInOrder(locale, TRUE), last'.res, locale') ]_vars

\* The script-only entry of Adlm gave a region to xx-Adlm.
C28_Witness ==
    /\ last.op = "add_likely_subtags" /\ last.res = "true"
    /\ ops = 1
    /\ Locale_to_string(locale).val = <<"x", "x", "-", "A", "d", "l", "m", "-", "G", "N">>

\* The inputs of tests::add_likely_consistent_with_shortcuts that have a
\* shortcut in the negotiate module, each with the expansion the test expects.
add_likely_consistent_with_shortcuts ==
    << <<Loc("az", Absent, Absent, <<>>), Loc("az", "Latn", "AZ", <<>>)>>,
       <<Loc("bg", Absent, Absent, <<>>), Loc("bg", "Cyrl", "BG", <<>>)>>,
       <<Loc("cs", Absent, Absent, <<>>), Loc("cs", "Latn", "CZ", <<>>)>>,
       <<Loc("de", Absent, Absent, <<>>), Loc("de", "Latn", "DE", <<>>)>>,
       <<Loc("en", Absent, Absent, <<>>), Loc("en", "Latn", "US", <<>>)>>,
       <<Loc("es", Absent, Absent, <<>>), Loc("es", "Latn", "ES", <<>>)>>,
       <<Loc("fi", Absent, Absent, <<>>), Loc("fi", "Latn", "FI", <<>>)>>,
       <<Loc("fr", Absent, Absent, <<>>), Loc("fr", "Latn", "FR", <<>>)>>,
       <<Loc("it", Absent, Absent, <<>>), Loc("it", "Latn", "IT", <<>>)>>,
       <<Loc("lt", Absent, Absent, <<>>), Loc("lt", "Latn", "LT", <<>>)>>,
       <<Loc("lv", Absent, Absent, <<>>), Loc("lv", "Latn", "LV", <<>>)>>,
       <<Loc("nl", Absent, Absent, <<>>), Loc("nl", "Latn", "NL", <<>>)>>,
       <<Loc("pl", Absent, Absent, <<>>), Loc("pl", "Latn", "PL", <<>>)>>,
       <<Loc("ro", Absent, Absent, <<>>), Loc("ro", "Latn", "RO", <<>>)>>,
       <<Loc("ru", Absent, Absent, <<>>), Loc("ru", "Cyrl", "RU", <<>>)>>,
       <<Loc("sr", Absent, Absent, <<>>), Loc("sr", "Cyrl", "RS", <<>>)>>,
       <<Loc("sr", Absent, "RU", <<>>), Loc("sr", "Latn", "RU", <<>>)>>,
       <<Loc("az", Absent, "IR", <<>>), Loc("az", "Arab", "IR", <<>>)>>,
       <<Loc("zh", Absent, "GB", <<>>), Loc("zh", "Hant", "GB", <<>>)>>,
       <<Loc("zh", Absent, "US", <<>>), Loc("zh", "Hant", "US", <<>>)>> >>

\* C29: the shortcut expander is consistent with the table-based
\* add_likely_subtags: for every input that has a shortcut, maximize gives
\* the language and the region, and the script wherever it sets one, of the
\* expansion that the test add_likely_consistent_with_shortcuts expects.
C29_ShortcutsConsistent ==
    [][ (mstatus' # mstatus) =>
            \A i \in 1..Len(add_likely_consistent_with_shortcuts) :
                LET expected == add_likely_consistent_with_shortcuts[i][2] IN
                mx = add_likely_consistent_with_shortcuts[i][1] =>
                    /\ mx'.language = expected.language
                    /\ mx'.region = expected.region
                    /\ mx'.script # Absent => mx'.script = expected.script ]_vars

====
